---- MODULE Spec2Model ----
(***************************************************************************)
(* Scheduling-and-dispatch engine of the automation orchestrator:          *)
(* the schedule matcher (util.py), the per-minute DuplicateGuard, the      *)
(* InMemoryQueue and DBBackedScheduler (orchestrator.py), the command      *)
(* builder (executor.py) and the OrchestratorController that drives the    *)
(* scheduler timer and the single QProcess (gui_controller.py).            *)
(*                                                                         *)
(* Python strings are modelled as sequences of one-character strings, so   *)
(* that strip, lower, split, isdigit, int and substring are computed, not  *)
(* assumed.                                                                *)
(***************************************************************************)
EXTENDS Integers, Sequences, FiniteSets, TLC

(***************************************************************************)
(* Bounds of the model.                                                    *)
(***************************************************************************)
\* manual enqueues (GUI "run selected") performed in one behaviour
MaxManual == 1
\* DuplicateGuard.allow() calls performed in one behaviour of GuardSpec
MaxCalls == 4
\* InMemoryQueue put() and get() calls performed in one behaviour of QueueSpec
MaxQueueOps == 5

(***************************************************************************)
(* String helpers (Python str methods used by util.py and executor.py).    *)
(***************************************************************************)
Digits == <<"0", "1", "2", "3", "4", "5", "6", "7", "8", "9">>

UpperChars == <<"A", "B", "C", "D", "E", "F", "G", "H", "I", "J", "K", "L", "M",
                "N", "O", "P", "Q", "R", "S", "T", "U", "V", "W", "X", "Y", "Z">>

LowerChars == <<"a", "b", "c", "d", "e", "f", "g", "h", "i", "j", "k", "l", "m",
                "n", "o", "p", "q", "r", "s", "t", "u", "v", "w", "x", "y", "z">>

\* whitespace stripped by str.strip() and skipped by shlex
IsSpace(c) == c = " "

IsDigitChar(c) == \E i \in 1..Len(Digits) : Digits[i] = c

DigitVal(c) == (CHOOSE i \in 1..Len(Digits) : Digits[i] = c) - 1

\* str.isdigit(): non-empty and every character a digit
IsDigit(s) == Len(s) > 0 /\ \A i \in 1..Len(s) : IsDigitChar(s[i])

RECURSIVE ToInt(_)
\* int(s) for a string of digits
ToInt(s) ==
    IF Len(s) = 0 THEN 0
    ELSE 10 * ToInt(SubSeq(s, 1, Len(s) - 1)) + DigitVal(s[Len(s)])

LowerChar(c) ==
    IF \E i \in 1..Len(UpperChars) : UpperChars[i] = c
    THEN LowerChars[CHOOSE i \in 1..Len(UpperChars) : UpperChars[i] = c]
    ELSE c

\* str.lower()
Lower(s) == [i \in 1..Len(s) |-> LowerChar(s[i])]

RECURSIVE LStrip(_)
LStrip(s) ==
    IF Len(s) > 0 /\ IsSpace(s[1]) THEN LStrip(Tail(s)) ELSE s

RECURSIVE RStrip(_)
RStrip(s) ==
    IF Len(s) > 0 /\ IsSpace(s[Len(s)]) THEN RStrip(SubSeq(s, 1, Len(s) - 1)) ELSE s

\* str.strip()
Strip(s) == RStrip(LStrip(s))

\* Python's "current in token": current is a contiguous substring of token
Contains(token, current) ==
    \E i \in 0..(Len(token) - Len(current)) :
        SubSeq(token, i + 1, i + Len(current)) = current

RECURSIVE SplitOn(_, _)
\* str.split(sep) for a one-character separator: always at least one piece
SplitOn(s, sep) ==
    IF \E i \in 1..Len(s) : s[i] = sep
    THEN LET k == CHOOSE i \in 1..Len(s) :
                      s[i] = sep /\ \A j \in 1..(i - 1) : s[j] # sep
         IN  <<SubSeq(s, 1, k - 1)>> \o SplitOn(SubSeq(s, k + 1, Len(s)), sep)
    ELSE <<s>>

RECURSIVE Concat(_)
\* flattens a sequence of sequences
Concat(ss) == IF Len(ss) = 0 THEN <<>> ELSE Head(ss) \o Concat(Tail(ss))

RECURSIVE Join(_, _)
\* sep.join(parts)
Join(parts, sep) ==
    IF Len(parts) = 0 THEN <<>>
    ELSE IF Len(parts) = 1 THEN parts[1]
    ELSE parts[1] \o sep \o Join(Tail(parts), sep)

\* time.strftime("%d"/"%H"/"%M"): two digits, zero padded
Pad2(n) == <<Digits[(n \div 10) + 1], Digits[(n % 10) + 1]>>

RECURSIVE IntToStr(_)
\* str(n) for n >= 0
IntToStr(n) ==
    IF n < 10 THEN <<Digits[n + 1]>>
    ELSE IntToStr(n \div 10) \o <<Digits[(n % 10) + 1]>>

(***************************************************************************)
(* util.py: the schedule matcher.                                          *)
(***************************************************************************)
Todos == <<"t", "o", "d", "o", "s">>

\* an absent cell: None, which is also what row.get() gives for a missing field
NoneCell == <<"None">>

\* a float cell: the mark "float" followed by the characters of its repr
FloatCell(repr) == <<"float">> \o repr

NaNCell == FloatCell(<<"n", "a", "n">>)

\* isinstance(value, float)
IsFloat(value) == Len(value) > 0 /\ value[1] = "float"

\* the digits of a float's repr before the point
FloatWhole(value) ==
    SubSeq(value, 2, (CHOOSE k \in 2..Len(value) : value[k] = ".") - 1)

\* float.is_integer(): every digit after the point is zero
FloatIsInteger(value) ==
    /\ \E k \in 2..Len(value) : value[k] = "."
    /\ \A k \in 2..Len(value) :
           (\E j \in 2..(k - 1) : value[j] = ".") => value[k] = "0"

\* str(value): the repr of a float, the text itself of a str
StrOf(value) == IF IsFloat(value) THEN Tail(value) ELSE value

\* _normalize_cell: None and NaN become "", a whole-number float becomes the text
\* of its integer, anything else is str(value).strip()
NormalizeCell(value) ==
    IF value = NoneCell \/ value = NaNCell THEN <<>>
    ELSE IF IsFloat(value) /\ FloatIsInteger(value) THEN IntToStr(ToInt(FloatWhole(value)))
    ELSE Strip(StrOf(value))

SplitAll(tokens, sep) == Concat([i \in 1..Len(tokens) |-> SplitOn(tokens[i], sep)])

\* the last step of _split_values: strip every token, drop the empty ones
StripTokens(tokens) ==
    SelectSeq([i \in 1..Len(tokens) |-> Strip(tokens[i])], LAMBDA t : Len(t) > 0)

\* variant: the comma is the only separator
SplitValues_CommaOnly(raw) ==
    IF Len(raw) = 0 THEN <<>>
    ELSE StripTokens(SplitAll(<<raw>>, ","))

\* _split_values: split on ";", then "|", then ",", strip, drop empty tokens
SplitValues(raw) ==
    IF Len(raw) = 0 THEN <<>>
    ELSE StripTokens(SplitAll(SplitAll(SplitAll(<<raw>>, ";"), "|"), ","))

\* variant: tokens are compared as text only
TokenMatchesStripped_Text(token, current) ==
    IF Len(token) = 0 \/ Len(current) = 0 THEN FALSE
    ELSE Contains(token, current)

\* variant: text tokens are compared without regard to letter case
TokenMatchesStripped_IgnoreCase(token, current) ==
    IF Len(token) = 0 \/ Len(current) = 0 THEN FALSE
    ELSE IF IsDigit(token) /\ IsDigit(current) THEN ToInt(token) = ToInt(current)
    ELSE Contains(Lower(token), Lower(current))

\* _matches.token_matches, from the stripped token and value on
TokenMatchesStripped(token, current) ==
    IF Len(token) = 0 \/ Len(current) = 0 THEN FALSE
    ELSE IF IsDigit(token) /\ IsDigit(current) THEN ToInt(token) = ToInt(current)
    ELSE Contains(token, current)

\* _matches.token_matches
TokenMatches(token, current) == TokenMatchesStripped(Strip(token), Strip(current))

\* _matches, from the split of the normalised value on
MatchesAny(raw, candidatos, now_value) ==
    IF Len(candidatos) > 0
    THEN \E i \in 1..Len(candidatos) : TokenMatches(candidatos[i], now_value)
    ELSE TokenMatches(raw, now_value)

\* variant: the wildcard is recognised in one spelling only
MatchesRaw_CaseSensitive(raw, now_value) ==
    IF Len(raw) = 0 THEN FALSE
    ELSE IF raw = <<"T", "o", "d", "o", "s">> THEN TRUE
    ELSE MatchesAny(raw, SplitValues(raw), now_value)

\* _matches, from the normalised value on
MatchesRaw(raw, now_value) ==
    IF Len(raw) = 0 THEN FALSE
    ELSE IF Lower(raw) = Todos THEN TRUE
    ELSE MatchesAny(raw, SplitValues(raw), now_value)

\* _matches
Matches(field_value, now_value) == MatchesRaw(NormalizeCell(field_value), now_value)

\* variant: the minute field is not consulted
ShouldEnqueue_NoMinute(row, now) ==
    /\ Matches(row.ano, now.year)
    /\ Matches(row.meses_do_ano, now.month_name)
    /\ Matches(row.semanas_do_mes, now.week_of_month)
    /\ Matches(row.dias_da_semana, now.weekday_name)
    /\ Matches(row.dia, now.day)
    /\ Matches(row.hora, now.hour)

\* should_enqueue: the conjunction of the seven field matches
ShouldEnqueue(row, now) ==
    /\ Matches(row.ano, now.year)
    /\ Matches(row.meses_do_ano, now.month_name)
    /\ Matches(row.semanas_do_mes, now.week_of_month)
    /\ Matches(row.dias_da_semana, now.weekday_name)
    /\ Matches(row.dia, now.day)
    /\ Matches(row.hora, now.hour)
    /\ Matches(row.minuto, now.minute)

\* to_process_item: the normalised (processo, ferramenta, caminho) record
ToProcessItem(row) ==
    [processo |-> NormalizeCell(row.Nome_Processo),
     ferramenta |-> NormalizeCell(row.Ferramenta),
     caminho |-> NormalizeCell(row.Caminho)]

(***************************************************************************)
(* executor.py: the command builder.                                       *)
(***************************************************************************)
\* the host filesystem seen by os.path.exists / os.path.isfile
Files ==
    { <<"n", ".", "t", "x", "t">>, <<"s", ".", "p", "y">>, <<"p", " ", "q", ".", "p", "y">>,
      <<"x", ".", "b", "a", "t">>, <<"d", "\\", "n", ".", "t", "x", "t">>, <<"p">> }

Dirs == { <<"d">>, <<"e", " ", "f">> }

PathExists(p) == p \in Files \/ p \in Dirs

PathIsFile(p) == p \in Files

\* sys.executable
SysExecutable == <<"p", "y", "t", "h", "o", "n", ".", "e", "x", "e">>

IsQuote(c) == c = "\"" \/ c = "'"

IsPathSep(c) == c = "\\" \/ c = "/"

RECURSIVE ShlexLex(_, _, _, _, _)
\* shlex.split(raw, posix=False): whitespace_split, no comments, quotes kept in
\* the token, a closing quote ends the token, an unclosed quote is a ValueError
ShlexLex(s, i, state, token, out) ==
    IF i > Len(s)
    THEN IF IsQuote(state) THEN [ok |-> FALSE, tokens |-> <<>>]
         ELSE [ok |-> TRUE, tokens |-> IF Len(token) > 0 THEN Append(out, token) ELSE out]
    ELSE LET c == s[i]
         IN  IF state = " "
             THEN IF IsSpace(c) THEN ShlexLex(s, i + 1, " ", <<>>, out)
                  ELSE IF IsQuote(c) THEN ShlexLex(s, i + 1, c, <<c>>, out)
                  ELSE ShlexLex(s, i + 1, "a", <<c>>, out)
             ELSE IF IsQuote(state)
             THEN IF c = state
                  THEN ShlexLex(s, i + 1, " ", <<>>, Append(out, Append(token, c)))
                  ELSE ShlexLex(s, i + 1, state, Append(token, c), out)
             ELSE IF IsSpace(c)
                  THEN ShlexLex(s, i + 1, " ", <<>>,
                                IF Len(token) > 0 THEN Append(out, token) ELSE out)
                  ELSE ShlexLex(s, i + 1, "a", Append(token, c), out)

ShlexSplit(raw) == ShlexLex(raw, 1, " ", <<>>, <<>>)

\* the candidate " ".join(tokens[:i])
Candidate(tokens, i) == Join(SubSeq(tokens, 1, i), <<" ">>)

MaxOf(S) == CHOOSE x \in S : \A y \in S : y <= x

\* [candidate, *tokens[i:]]
Rebuilt(tokens, i) == <<Candidate(tokens, i)>> \o SubSeq(tokens, i + 1, Len(tokens))

\* variant: the shortest existing prefix is taken
RebuildPrefix_Shortest(tokens, byFile, byAny) ==
    IF byFile # {} THEN Rebuilt(tokens, CHOOSE i \in byFile : \A j \in byFile : i <= j)
    ELSE IF byAny # {} THEN Rebuilt(tokens, CHOOSE i \in byAny : \A j \in byAny : i <= j)
    ELSE tokens

\* the two prefix loops of _split_command_windows: files first, longest first
RebuildPrefix(tokens, byFile, byAny) ==
    IF byFile # {} THEN Rebuilt(tokens, MaxOf(byFile))
    ELSE IF byAny # {} THEN Rebuilt(tokens, MaxOf(byAny))
    ELSE tokens

\* _split_command_windows, from the tokens of shlex on
SplitTokens(raw, tokens) ==
    IF Len(tokens) > 1 /\ ~IsQuote(raw[1])
    THEN RebuildPrefix(tokens,
                       { i \in 1..Len(tokens) : PathIsFile(Candidate(tokens, i)) },
                       { i \in 1..Len(tokens) : PathExists(Candidate(tokens, i)) })
    ELSE tokens

\* tokens = shlex.split(raw, posix=False), or [raw] on ValueError
ShlexOrRaw(raw, lexed) == IF lexed.ok THEN lexed.tokens ELSE <<raw>>

\* _split_command_windows, from the stripped text on
SplitStripped(raw) ==
    IF Len(raw) = 0 THEN <<>>
    ELSE IF PathExists(raw) THEN <<raw>>
    ELSE SplitTokens(raw, ShlexOrRaw(raw, ShlexSplit(raw)))

\* _split_command_windows
SplitCommandWindows(raw) == SplitStripped(Strip(raw))

\* os.path.splitext(p)[1] (ntpath): from the last dot of the last path component,
\* unless that component has only leading dots before it
SplitExt(p) ==
    LET seps == { i \in 1..Len(p) : IsPathSep(p[i]) }
        base == IF seps = {} THEN 0 ELSE MaxOf(seps)
        dots == { i \in (base + 1)..Len(p) : p[i] = "." }
    IN  IF dots = {} THEN <<>>
        ELSE LET d == MaxOf(dots)
             IN  IF \E j \in (base + 1)..(d - 1) : p[j] # "."
                 THEN SubSeq(p, d, Len(p))
                 ELSE <<>>

ExtPy == { <<".", "p", "y">>, <<".", "p", "y", "w">> }

ExtBat == { <<".", "b", "a", "t">>, <<".", "c", "m", "d">> }

ExtPs1 == <<".", "p", "s", "1">>

ExtLnk == <<".", "l", "n", "k">>

ExtBinary == { <<".", "e", "x", "e">>, <<".", "c", "o", "m">> }

UiPathTool == <<"u", "i", "p", "a", "t", "h">>

\* words of the fixed argument vectors, kept as opaque tokens
WExecute == <<"execute">>

WProcessName == <<"--process-name">>

\* build_uipath_command
BuildUipathCommand(robot_path, process_name) ==
    <<robot_path, WExecute, WProcessName, process_name>>

\* _ps_quote: single-quote the value, doubling the single quotes inside it
PsQuote(value) ==
    <<"'">> \o Concat([i \in 1..Len(value) |->
                          IF value[i] = "'" THEN <<"'", "'">> ELSE <<value[i]>>])
            \o <<"'">>

\* the list build_subprocess_command returns
BuildOk(cmd) == [ok |-> TRUE, err |-> "", cmd |-> cmd, entry |-> <<>>, ext |-> <<>>]

\* a ValueError of build_subprocess_command that names no path
BuildError(err) == [ok |-> FALSE, err |-> err, cmd |-> <<>>, entry |-> <<>>, ext |-> <<>>]

\* the ValueError for a non-executable file, whose message names entry and ext
UnexecutableTarget(entry, ext) ==
    [ok |-> FALSE, err |-> "unexecutable_target", cmd |-> <<>>, entry |-> entry,
     ext |-> ext]

\* the .lnk command line of build_subprocess_command
LnkCommand(entry, rest) ==
    <<"Start-Process -FilePath ">> \o PsQuote(entry)
        \o <<" -ArgumentList @(">>
        \o Join([i \in 1..Len(rest) |-> PsQuote(rest[i])], <<",">>)
        \o <<") -Wait">>

\* variant: the check for a non-executable file comes before the extension rules
BuildByExt_CheckFirst(tokens, entry, ext) ==
    IF PathExists(entry) /\ PathIsFile(entry) /\ ext \notin ExtBinary
    THEN UnexecutableTarget(entry, ext)
    ELSE IF ext \in ExtPy THEN BuildOk(<<SysExecutable>> \o tokens)
    ELSE BuildOk(tokens)

\* variant: a file that is not a binary is passed through like any other target
BuildByExt_PassThrough(tokens, entry, ext) ==
    IF ext \in ExtPy THEN BuildOk(<<SysExecutable>> \o tokens)
    ELSE BuildOk(tokens)

\* build_subprocess_command, from the extension of tokens[0] on
BuildByExt(tokens, entry, ext) ==
    IF ext \in ExtPy THEN BuildOk(<<SysExecutable>> \o tokens)
    ELSE IF ext \in ExtBat THEN BuildOk(<< <<"cmd.exe">>, <<"/c">> >> \o tokens)
    ELSE IF ext = ExtPs1
    THEN BuildOk(<< <<"powershell">>, <<"-NoProfile">>, <<"-ExecutionPolicy">>,
                    <<"Bypass">>, <<"-File">>, entry >> \o Tail(tokens))
    ELSE IF ext = ExtLnk
    THEN BuildOk(<< <<"powershell">>, <<"-NoProfile">>, <<"-ExecutionPolicy">>,
                    <<"Bypass">>, <<"-Command">>, LnkCommand(entry, Tail(tokens)) >>)
    ELSE IF PathExists(entry) /\ PathIsFile(entry) /\ ext \notin ExtBinary
    THEN UnexecutableTarget(entry, ext)
    ELSE BuildOk(tokens)

\* build_subprocess_command, from the tokens of the path on
BuildFromTokens(tokens) ==
    IF Len(tokens) = 0 THEN BuildError("empty_command")
    ELSE BuildByExt(tokens, tokens[1], Lower(SplitExt(tokens[1])))

\* variant: the tool named "python" is run through the current runtime
BuildStripped_ToolRuntime(tool, path, process_name) ==
    IF Len(tool) = 0 \/ Len(path) = 0 THEN BuildError("invalid_item")
    ELSE IF Lower(tool) = UiPathTool
    THEN BuildOk(BuildUipathCommand(path, process_name))
    ELSE IF Lower(tool) = <<"p", "y", "t", "h", "o", "n">>
    THEN BuildOk(<<SysExecutable>> \o SplitCommandWindows(path))
    ELSE BuildFromTokens(SplitCommandWindows(path))

\* variant: the robot path is split like any other command line
BuildStripped_SplitUipath(tool, path, process_name) ==
    IF Len(tool) = 0 \/ Len(path) = 0 THEN BuildError("invalid_item")
    ELSE IF Lower(tool) = UiPathTool
    THEN BuildOk(BuildUipathCommand(SplitCommandWindows(path)[1], process_name))
    ELSE BuildFromTokens(SplitCommandWindows(path))

\* variant: blank fields are not rejected
BuildStripped_NoCheck(tool, path, process_name) ==
    IF Lower(tool) = UiPathTool
    THEN BuildOk(BuildUipathCommand(path, process_name))
    ELSE BuildFromTokens(SplitCommandWindows(path))

\* build_subprocess_command, from the stripped fields on
BuildStripped(tool, path, process_name) ==
    IF Len(tool) = 0 \/ Len(path) = 0 THEN BuildError("invalid_item")
    ELSE IF Lower(tool) = UiPathTool
    THEN BuildOk(BuildUipathCommand(path, process_name))
    ELSE BuildFromTokens(SplitCommandWindows(path))

\* str(value or ""): an absent value reads as the empty text
StrOrEmpty(value) == IF value = NoneCell THEN <<>> ELSE value

\* build_subprocess_command: [ok |-> TRUE, cmd |-> argv], or the ValueError raised
BuildSubprocessCommand(item) ==
    BuildStripped(Strip(StrOrEmpty(item.ferramenta)), Strip(StrOrEmpty(item.caminho)),
                  Strip(StrOrEmpty(item.processo)))

\* what subprocess.run(cmd, check=True) may do: exit code 0, a non-zero exit
\* code (CalledProcessError), or no such program (OSError, modelled as -1)
RunOutcomes == { 0, 1, -1 }

\* run_item, from the built command on
RunBuilt(tool, b, outcome) ==
    IF ~b.ok
    THEN [raised |-> b.err, launched |-> <<>>, captured |-> FALSE, slept |-> 0]
    ELSE [raised |-> IF outcome = 0 THEN ""
                     ELSE IF outcome = -1 THEN "os_error" ELSE "called_process_error",
          launched |-> <<b.cmd>>,
          captured |-> Lower(tool) = UiPathTool,
          slept |-> IF Lower(tool) = UiPathTool /\ outcome = 0 THEN 20 ELSE 0]

\* run_item
RunItem(item, outcome) ==
    RunBuilt(Strip(StrOrEmpty(item.ferramenta)), BuildSubprocessCommand(item), outcome)

(***************************************************************************)
(* The environment: the clock and the job source (db.py).                  *)
(***************************************************************************)
\* operating window of _on_scheduler_tick: 7 <= hour < 18
WindowStart == 7

WindowEnd == 18

\* the local times the clock passes through (day, hour, minute of December 2025)
TimePoints ==
    { [day |-> 26, hour |-> 6, minute |-> 5],
      [day |-> 26, hour |-> 7, minute |-> 5],
      [day |-> 26, hour |-> 7, minute |-> 6],
      [day |-> 26, hour |-> 18, minute |-> 5],
      [day |-> 27, hour |-> 7, minute |-> 5] }

Before(t, u) ==
    \/ t.day < u.day
    \/ t.day = u.day /\ t.hour < u.hour
    \/ t.day = u.day /\ t.hour = u.hour /\ t.minute < u.minute

YearStr == <<"2", "0", "2", "5">>

MonthName == <<"D", "e", "c", "e", "m", "b", "e", "r">>

\* time.strftime("%A") for the days of the model (26 December 2025 is a Friday)
WeekdayName(day) ==
    IF day = 26 THEN <<"F", "r", "i", "d", "a", "y">>
    ELSE <<"S", "a", "t", "u", "r", "d", "a", "y">>

\* get_now_parts: the NowParts of a local time
GetNowParts(t) ==
    [year |-> YearStr,
     month_name |-> MonthName,
     week_of_month |-> IntToStr(((ToInt(Pad2(t.day)) - 1) \div 7) + 1),
     weekday_name |-> WeekdayName(t.day),
     day |-> Pad2(t.day),
     hour |-> Pad2(t.hour),
     minute |-> Pad2(t.minute)]

Wild == <<"T", "o", "d", "o", "s">>

\* a ProcessConfig row with the given identity, hour and minute fields
Proc(nome, ferramenta, caminho, hora, minuto, enabled) ==
    [Nome_Processo |-> nome, Ferramenta |-> ferramenta, Caminho |-> caminho,
     ano |-> Wild, meses_do_ano |-> Wild, semanas_do_mes |-> Wild,
     dias_da_semana |-> Wild, dia |-> Wild, hora |-> hora, minuto |-> minuto,
     enabled |-> enabled]

\* the processes table, in the order list_processes returns it (by name)
ProcA == Proc(<<"A">>, <<"U", "i", "P", "a", "t", "h">>, <<"r", ".", "e", "x", "e">>,
              <<"0", "7">>, <<"0", "5">>, TRUE)

ProcB == Proc(<<"B">>, <<"P", "y", "t", "h", "o", "n">>, <<"s", ".", "p", "y">>,
              Wild, <<"5">>, TRUE)

ProcC == Proc(<<"C">>, <<"x">>, <<"n", ".", "t", "x", "t">>,
              Wild, Wild, FALSE)

Processes == <<ProcA, ProcB, ProcC>>

\* variant: the enabled_only filter is ignored
ListProcesses_All(enabled_only) == Processes

\* OrchestratorDB.list_processes
ListProcesses(enabled_only) ==
    IF enabled_only THEN SelectSeq(Processes, LAMBDA p : p.enabled) ELSE Processes

\* process_to_schedule_row: the row without the id and enabled columns
ProcessToScheduleRow(proc) ==
    [Nome_Processo |-> proc.Nome_Processo, Ferramenta |-> proc.Ferramenta,
     Caminho |-> proc.Caminho, ano |-> proc.ano, meses_do_ano |-> proc.meses_do_ano,
     semanas_do_mes |-> proc.semanas_do_mes, dias_da_semana |-> proc.dias_da_semana,
     dia |-> proc.dia, hora |-> proc.hora, minuto |-> proc.minuto]

\* the loop of poll_due_processes over the rows list_processes returned
PollDueRows(procs, now) ==
    LET rows == [i \in 1..Len(procs) |-> ProcessToScheduleRow(procs[i])]
        due == SelectSeq(rows, LAMBDA r : ShouldEnqueue(r, now))
    IN  [i \in 1..Len(due) |-> ToProcessItem(due[i])]

\* poll_due_processes: the items of the enabled rows that are due, in table order
PollDueProcesses(now) == PollDueRows(ListProcesses(TRUE), now)

\* the item MainWindow._run_selected builds for a manual enqueue
ManualItem(proc) ==
    [processo |-> proc.Nome_Processo, ferramenta |-> proc.Ferramenta,
     caminho |-> proc.Caminho]

\* exit codes a process may report
ExitCodes == {0, 1}

(***************************************************************************)
(* State.                                                                  *)
(***************************************************************************)
VARIABLES
    clock,              \* the local time (environment)
    running_scheduler,  \* OrchestratorController._running_scheduler (timer active)
    last_minute_key,    \* DuplicateGuard._last_minute_key (<<>> models None)
    seen,               \* DuplicateGuard._seen
    dq,                 \* InMemoryQueue._dq
    pstate,             \* QProcess.state(): "NotRunning", "Starting", "Running"
    running_item,       \* OrchestratorController._running_item (<<>> models None)
    status,             \* the last status_text emitted
    ev,                 \* what the last handler did (observation of one handler run)
    qseq,               \* history: enqueue serial number of each queue entry
    nput,               \* history: number of puts so far
    attempts,           \* history: serial numbers passed to _start_item, in order
    schedPuts,          \* history: puts by tick_once per job identity, this minute
    tickHist,           \* history: fault-free and faulted ticks of this minute
    nmanual,            \* history: manual enqueues so far
    calls               \* history: the DuplicateGuard.allow() calls of GuardSpec

vars == <<clock, running_scheduler, last_minute_key, seen, dq, pstate, running_item,
          status, ev, qseq, nput, attempts, schedPuts, tickHist, nmanual, calls>>

\* the job identities of the processes table
Identities == { ManualItem(Processes[i]) : i \in 1..Len(Processes) }

Log(tag, name, code) == [tag |-> tag, name |-> name, code |-> code]

\* the observation record a handler starts with
NewEv(op) ==
    [op |-> op, tick |-> FALSE, hour |-> -1, fetched |-> FALSE, fault |-> "",
     nenq |-> 0, qlen0 |-> Len(dq), pstate0 |-> pstate, popped |-> FALSE,
     startState |-> "", started |-> FALSE, exc |-> "", logs |-> <<>>, exit |-> -1,
     item0 |-> running_item, status0 |-> status, killed |-> FALSE]

\* the controller state a handler works on
Cur(op) ==
    [last_minute_key |-> last_minute_key, seen |-> seen, dq |-> dq, pstate |-> pstate,
     running_item |-> running_item, status |-> status, qseq |-> qseq, nput |-> nput,
     attempts |-> attempts, schedPuts |-> schedPuts, tickHist |-> tickHist,
     ev |-> NewEv(op)]

\* the state a handler leaves
Commit(st) ==
    /\ last_minute_key' = st.last_minute_key
    /\ seen' = st.seen
    /\ dq' = st.dq
    /\ pstate' = st.pstate
    /\ running_item' = st.running_item
    /\ status' = st.status
    /\ qseq' = st.qseq
    /\ nput' = st.nput
    /\ attempts' = st.attempts
    /\ schedPuts' = st.schedPuts
    /\ tickHist' = st.tickHist
    /\ ev' = st.ev

AddLog(st, tag, name, code) == [st EXCEPT !.ev.logs = Append(@, Log(tag, name, code))]

(***************************************************************************)
(* orchestrator.py: InMemoryQueue and DuplicateGuard.                      *)
(***************************************************************************)
\* a put that inserts at the left end (appendleft)
QueuePut_Front(q, item) == <<item>> \o q

\* InMemoryQueue.put: append at the right end
QueuePut(q, item) == Append(q, item)

\* InMemoryQueue.empty
QueueEmpty(q) == Len(q) = 0

\* a get that pops the newest entry (pop instead of popleft)
QueueGet_Lifo(q) == [item |-> q[Len(q)], rest |-> SubSeq(q, 1, Len(q) - 1)]

\* InMemoryQueue.get on a non-empty queue: popleft, as [item, rest]
QueueGet(q) == [item |-> Head(q), rest |-> Tail(q)]

\* a get that answers None on an empty queue instead of raising
InMemoryQueueGet_Default(q) ==
    IF Len(q) = 0 THEN [raised |-> FALSE, item |-> <<>>, rest |-> q]
    ELSE [raised |-> FALSE, item |-> <<QueueGet(q).item>>, rest |-> QueueGet(q).rest]

\* InMemoryQueue.get: raises queue.Empty on an empty queue, else pops the left
\* end; item is <<>> when nothing is returned and <<value>> otherwise
InMemoryQueueGet(q) ==
    IF Len(q) = 0 THEN [raised |-> TRUE, item |-> <<>>, rest |-> q]
    ELSE [raised |-> FALSE, item |-> <<QueueGet(q).item>>, rest |-> QueueGet(q).rest]

\* a minute key that leaves the date out
MinuteKey_NoDay(now) == now.hour \o now.minute

\* the minute key of reset_if_new_minute
MinuteKey(now) == now.year \o now.month_name \o now.day \o now.hour \o now.minute

\* the job key of allow
JobKey(item) == item.processo \o <<"|">> \o item.ferramenta \o <<"|">> \o item.caminho

\* a reset that clears the seen-set on every call
ResetIfNewMinute_Always(g, now) == [last_minute_key |-> MinuteKey(now), seen |-> {}]

\* a reset that replaces the key and keeps the seen-set
ResetIfNewMinute_NoClear(g, now) == [last_minute_key |-> MinuteKey(now), seen |-> g.seen]

\* DuplicateGuard.reset_if_new_minute on the guard [last_minute_key, seen]
ResetIfNewMinute(g, now) ==
    IF MinuteKey(now) # g.last_minute_key
    THEN [last_minute_key |-> MinuteKey(now), seen |-> {}]
    ELSE g

\* an allow that tests the key and never records it
GuardAllow_NoRecord(g, item, now) ==
    LET g1 == ResetIfNewMinute(g, now)
    IN  [guard |-> g1, ok |-> JobKey(item) \notin g1.seen]

\* DuplicateGuard.allow: the guard after the call and the value returned
GuardAllow(g, item, now) ==
    LET g1 == ResetIfNewMinute(g, now)
        key == JobKey(item)
    IN  IF key \in g1.seen
        THEN [guard |-> g1, ok |-> FALSE]
        ELSE [guard |-> [g1 EXCEPT !.seen = @ \cup {key}], ok |-> TRUE]

(***************************************************************************)
(* gui_controller.py: dispatch.                                            *)
(***************************************************************************)
\* a drain guard that never returns early
ProcessIdle_Always(state) == TRUE

\* the guard of _drain_queue_if_idle: QProcess.state() == NotRunning
ProcessIdle(state) == state = "NotRunning"

\* QProcess.start(): a process that is not idle ignores the call
ProcessStart(state) == IF state = "NotRunning" THEN "Starting" ELSE state

\* _start_item, from the built command on
StartBuilt(st, name, b) ==
    IF ~b.ok
    THEN [st EXCEPT !.ev.exc = b.err]
    ELSE IF Len(b.cmd) = 0
    THEN [AddLog(st, "comando_vazio", name, -1) EXCEPT !.running_item = <<>>]
    ELSE [AddLog(st, "executando", name, -1) EXCEPT
             !.pstate = ProcessStart(st.pstate),
             !.status = "executando",
             !.ev.started = TRUE]

\* _start_item
StartItem(st, item) ==
    StartBuilt([st EXCEPT !.ev.startState = st.pstate], item.processo,
               BuildSubprocessCommand(item))

\* variant: the head entry is read but left on the queue
DrainPopped_Peek(st, got, ser) ==
    StartItem([st EXCEPT !.attempts = Append(@, ser.item),
                         !.running_item = <<got.item>>,
                         !.ev.popped = TRUE],
              got.item)

\* _drain_queue_if_idle, from the popped entry (and its serial number) on
DrainPopped(st, got, ser) ==
    StartItem([st EXCEPT !.dq = got.rest,
                         !.qseq = ser.rest,
                         !.attempts = Append(@, ser.item),
                         !.running_item = <<got.item>>,
                         !.ev.popped = TRUE],
              got.item)

\* _drain_queue_if_idle
DrainQueueIfIdle(st) ==
    IF ~ProcessIdle(st.pstate) THEN st
    ELSE IF QueueEmpty(st.dq) THEN [st EXCEPT !.status = "fila_vazia"]
    ELSE DrainPopped(st, QueueGet(st.dq), QueueGet(st.qseq))

PythonTool == <<"p", "y", "t", "h", "o", "n">>

\* a cancel test that accepts every running job
CanCancelItem_Any(tool, path) == TRUE

\* can_cancel_current_process, from the stripped, lower-cased tool and the
\* stripped path of the running item on
CanCancelItem(tool, path) == tool = PythonTool \/ Lower(SplitExt(path)) \in ExtPy

\* can_cancel_current_process
CanCancelCurrentProcess(st) ==
    IF st.pstate = "NotRunning" THEN FALSE
    ELSE IF Len(st.running_item) = 0 THEN FALSE
    ELSE CanCancelItem(Lower(Strip(st.running_item[1].ferramenta)),
                       Strip(st.running_item[1].caminho))

\* stop_current_process; ev.killed records the QProcess.kill() call
StopCurrentProcess(st) ==
    IF st.pstate = "NotRunning" THEN st
    ELSE IF ~CanCancelCurrentProcess(st)
    THEN AddLog(st, "cancelamento_recusado", <<>>, -1)
    ELSE [AddLog(st, "cancelando", <<>>, -1) EXCEPT !.ev.killed = TRUE]

(***************************************************************************)
(* orchestrator.py and gui_controller.py: the scheduler tick.              *)
(***************************************************************************)
\* the faults the job source and the log sink may show during one tick:
\* list_processes raising, or db.append_log raising for the logAt-th due item
Faults ==
    { [fetch |-> TRUE, logAt |-> 0] } \cup { [fetch |-> FALSE, logAt |-> k] : k \in 0..Len(ListProcesses(TRUE)) }

NoFault == [fetch |-> FALSE, logAt |-> 0]

\* variant: an accepted item is put on the queue twice
TickAccept_Twice(st, item) ==
    [AddLog(st, "enfileirado", item.processo, -1) EXCEPT
        !.dq = QueuePut(QueuePut(@, item), item),
        !.qseq = QueuePut(QueuePut(@, st.nput + 1), st.nput + 2),
        !.nput = @ + 2,
        !.schedPuts[item] = @ + 1,
        !.ev.nenq = @ + 1]

\* tick_once for one item the guard accepted: log it, then put it on the queue
TickAccept(st, item) ==
    [AddLog(st, "enfileirado", item.processo, -1) EXCEPT
        !.dq = QueuePut(@, item),
        !.qseq = QueuePut(@, st.nput + 1),
        !.nput = @ + 1,
        !.schedPuts[item] = @ + 1,
        !.ev.nenq = @ + 1]

\* the controller state with the guard replaced
WithGuard(st, g) == [st EXCEPT !.last_minute_key = g.last_minute_key, !.seen = g.seen]

GuardOf(st) == [last_minute_key |-> st.last_minute_key, seen |-> st.seen]

RECURSIVE TickLoop(_, _, _, _, _)
\* one iteration of the loop of tick_once, from the guard's answer r on
TickStep(st, due, i, now, fault, r) ==
    IF ~r.ok THEN TickLoop(WithGuard(st, r.guard), due, i + 1, now, fault)
    ELSE IF fault.logAt = i THEN [WithGuard(st, r.guard) EXCEPT !.ev.exc = "log_error"]
    ELSE TickLoop(TickAccept(WithGuard(st, r.guard), due[i]), due, i + 1, now, fault)

\* the for loop of tick_once over the due items, from the i-th on
TickLoop(st, due, i, now, fault) ==
    IF i > Len(due) THEN st
    ELSE TickStep(st, due, i, now, fault, GuardAllow(GuardOf(st), due[i], now))

\* a tick that resets the guard for the new minute before it fetches the entries
TickOnceAt_ResetFirst(st, now, fault) ==
    IF fault.fetch
    THEN [WithGuard(st, ResetIfNewMinute(GuardOf(st), now)) EXCEPT !.ev.exc = "fetch_error"]
    ELSE TickLoop([st EXCEPT !.ev.fetched = TRUE], PollDueProcesses(now), 1, now, fault)

\* tick_once, from the snapshot now_parts on
TickOnceAt(st, now, fault) ==
    IF fault.fetch THEN [st EXCEPT !.ev.exc = "fetch_error"]
    ELSE TickLoop([st EXCEPT !.ev.fetched = TRUE], PollDueProcesses(now), 1, now, fault)

\* tick_once on a fault-free job source whose enabled rows are procs
TickOnceOver(st, procs, now) ==
    TickLoop([st EXCEPT !.ev.fetched = TRUE], PollDueRows(procs, now), 1, now, NoFault)

\* DBBackedScheduler.tick_once at local time t; ev.exc names the exception raised
TickOnce(st, t, fault) == TickOnceAt(st, GetNowParts(t), fault)

\* a window test that opens one hour late
InWindow_LateStart(hour) == WindowStart < hour /\ hour < WindowEnd

\* a window test that lets the closing hour in
InWindow_Inclusive(hour) == WindowStart <= hour /\ hour <= WindowEnd

\* the operating-window test of _on_scheduler_tick
InWindow(hour) == WindowStart <= hour /\ hour < WindowEnd

\* the try/except of _on_scheduler_tick around tick_once, given its outcome
TickCaught(st) ==
    IF st.ev.exc # ""
    THEN [AddLog(st, "erro_no_scheduler", <<>>, -1) EXCEPT
             !.ev.fault = st.ev.exc, !.ev.exc = "", !.tickHist.faulted = TRUE]
    ELSE [st EXCEPT !.tickHist.ok = TRUE]

\* _on_scheduler_tick, from the hour read on
SchedulerTickAt(st, t, fault, hour) ==
    IF ~InWindow(hour)
    THEN [st EXCEPT !.ev.tick = TRUE, !.ev.hour = hour, !.status = "fora_do_horario"]
    ELSE DrainQueueIfIdle(TickCaught(
             TickOnce([st EXCEPT !.ev.tick = TRUE, !.ev.hour = hour], t, fault)))

\* _on_scheduler_tick at local time t
SchedulerTick(st, t, fault) == SchedulerTickAt(st, t, fault, ToInt(Pad2(t.hour)))

(***************************************************************************)
(* Actions: one per handler of the controller, plus the clock.             *)
(***************************************************************************)
\* time passes: the clock moves to a later minute
Advance ==
    /\ \E t \in TimePoints : Before(clock, t) /\ clock' = t
    /\ schedPuts' = [id \in Identities |-> 0]
    /\ tickHist' = [ok |-> FALSE, faulted |-> FALSE]
    /\ ev' = NewEv("clock")
    /\ UNCHANGED <<running_scheduler, last_minute_key, seen, dq, pstate, running_item,
                   status, qseq, nput, attempts, nmanual, calls>>

\* a start that only arms the timer and leaves the first tick to it
StartScheduler_NoTick ==
    /\ ~running_scheduler
    /\ running_scheduler' = TRUE
    /\ Commit([Cur("start_scheduler") EXCEPT !.status = "ligado"])
    /\ UNCHANGED <<clock, nmanual, calls>>

\* start_scheduler: switch on, then one immediate tick
StartScheduler ==
    /\ ~running_scheduler
    /\ running_scheduler' = TRUE
    /\ \E fault \in Faults :
           Commit(SchedulerTick([Cur("start_scheduler") EXCEPT !.status = "ligado"],
                                clock, fault))
    /\ UNCHANGED <<clock, nmanual, calls>>

\* stop_scheduler
StopScheduler ==
    /\ running_scheduler
    /\ running_scheduler' = FALSE
    /\ Commit([Cur("stop_scheduler") EXCEPT !.status = "desligado"])
    /\ UNCHANGED <<clock, nmanual, calls>>

\* a timer that stop_scheduler does not stop
TimerTick_AfterStop ==
    /\ \E fault \in Faults : Commit(SchedulerTick(Cur("timer"), clock, fault))
    /\ UNCHANGED <<clock, running_scheduler, nmanual, calls>>

\* the QTimer fires while the scheduler is on
TimerTick ==
    /\ running_scheduler
    /\ \E fault \in Faults : Commit(SchedulerTick(Cur("timer"), clock, fault))
    /\ UNCHANGED <<clock, running_scheduler, nmanual, calls>>

\* enqueue_manual(item): put, log, drain
EnqueueManualItem(st, item) ==
    DrainQueueIfIdle(AddLog([st EXCEPT !.dq = QueuePut(@, item),
                                       !.qseq = QueuePut(@, st.nput + 1),
                                       !.nput = @ + 1],
                            "enfileirado_manual", item.processo, -1))

\* enqueue_manual for a row of the processes table
EnqueueManual ==
    /\ nmanual < MaxManual
    /\ nmanual' = nmanual + 1
    /\ \E i \in 1..Len(Processes) :
           Commit(EnqueueManualItem(Cur("enqueue_manual"), ManualItem(Processes[i])))
    /\ UNCHANGED <<clock, running_scheduler, calls>>

\* _on_started: the process reports that it runs
OnStarted ==
    /\ pstate = "Starting"
    /\ Commit([Cur("started") EXCEPT !.pstate = "Running"])
    /\ UNCHANGED <<clock, running_scheduler, nmanual, calls>>

\* _on_error for a process that failed to start
OnError ==
    /\ pstate = "Starting"
    /\ Commit([AddLog(Cur("error"), "falha_ao_iniciar", <<>>, -1) EXCEPT
                  !.pstate = "NotRunning",
                  !.running_item = <<>>])
    /\ UNCHANGED <<clock, running_scheduler, nmanual, calls>>

\* a completion handler that puts a failed job back on the queue
Finished_Retry(st, exit_code) ==
    LET s1 == [st EXCEPT !.ev.exit = exit_code]
        s2 == AddLog(s1, "finalizado_erro", <<>>, exit_code)
        s3 == IF exit_code # 0 /\ Len(st.running_item) > 0
              THEN [s2 EXCEPT !.dq = QueuePut(@, st.running_item[1]),
                              !.qseq = QueuePut(@, st.nput + 1),
                              !.nput = @ + 1]
              ELSE s2
    IN  DrainQueueIfIdle([s3 EXCEPT !.running_item = <<>>])

\* the body of _on_finished, entered with the process already NotRunning
Finished(st, exit_code) ==
    LET name == IF Len(st.running_item) > 0 THEN st.running_item[1].processo ELSE <<>>
        s1 == [st EXCEPT !.running_item = <<>>, !.ev.exit = exit_code]
        s2 == IF exit_code = 0
              THEN AddLog(s1, "finalizado_sucesso", name, exit_code)
              ELSE AddLog(s1, "finalizado_erro", name, exit_code)
    IN  DrainQueueIfIdle(s2)

\* _on_finished: the running process exits with a code
OnFinished ==
    /\ pstate = "Running"
    /\ \E code \in ExitCodes :
           Commit(Finished([Cur("finished") EXCEPT !.pstate = "NotRunning"], code))
    /\ UNCHANGED <<clock, running_scheduler, nmanual, calls>>

\* the running process crashes: QProcess emits errorOccurred, then finished
OnCrashed ==
    /\ pstate = "Running"
    /\ \E code \in ExitCodes \ {0} :
           LET s1 == [AddLog(Cur("crashed"), "falha_ao_iniciar", <<>>, -1) EXCEPT
                         !.running_item = <<>>]
           IN  Commit(Finished([s1 EXCEPT !.pstate = "NotRunning"], code))
    /\ UNCHANGED <<clock, running_scheduler, nmanual, calls>>

FirstTime == CHOOSE t \in TimePoints : \A u \in TimePoints : u = t \/ Before(t, u)

Init ==
    /\ clock = FirstTime
    /\ running_scheduler = FALSE
    /\ last_minute_key = <<>>
    /\ seen = {}
    /\ dq = <<>>
    /\ pstate = "NotRunning"
    /\ running_item = <<>>
    /\ status = ""
    /\ qseq = <<>>
    /\ nput = 0
    /\ attempts = <<>>
    /\ schedPuts = [id \in Identities |-> 0]
    /\ tickHist = [ok |-> FALSE, faulted |-> FALSE]
    /\ nmanual = 0
    /\ calls = <<>>
    /\ ev = [op |-> "init", tick |-> FALSE, hour |-> -1, fetched |-> FALSE, fault |-> "",
             nenq |-> 0, qlen0 |-> 0, pstate0 |-> "NotRunning", popped |-> FALSE,
             startState |-> "", started |-> FALSE, exc |-> "", logs |-> <<>>,
             exit |-> -1, item0 |-> <<>>, status0 |-> "", killed |-> FALSE]

Next ==
    \/ Advance
    \/ StartScheduler
    \/ StopScheduler
    \/ TimerTick
    \/ EnqueueManual
    \/ OnStarted
    \/ OnError
    \/ OnFinished
    \/ OnCrashed

Spec == Init /\ [][Next]_vars

(***************************************************************************)
(* DuplicateGuard on its own: allow() called with arbitrary items and      *)
(* arbitrary snapshots, in any order (GuardSpec).                          *)
(***************************************************************************)
GuardItems == { ManualItem(ProcA), ManualItem(ProcB) }

GuardTimes ==
    { [day |-> 26, hour |-> 7, minute |-> 5],
      [day |-> 26, hour |-> 7, minute |-> 6],
      [day |-> 27, hour |-> 7, minute |-> 5] }

\* one DuplicateGuard.allow(item, now) call; calls records key, minute key, result
AllowCall ==
    /\ Len(calls) < MaxCalls
    /\ \E item \in GuardItems, t \in GuardTimes :
           LET now == GetNowParts(t)
               r == GuardAllow([last_minute_key |-> last_minute_key, seen |-> seen],
                               item, now)
           IN  /\ last_minute_key' = r.guard.last_minute_key
               /\ seen' = r.guard.seen
               /\ calls' = Append(calls, [key |-> JobKey(item), mkey |-> MinuteKey(now),
                                          ok |-> r.ok])
    /\ UNCHANGED <<clock, running_scheduler, dq, pstate, running_item, status, ev, qseq,
                   nput, attempts, schedPuts, tickHist, nmanual>>

GuardNext == AllowCall

GuardSpec == Init /\ [][GuardNext]_vars

(***************************************************************************)
(* InMemoryQueue on its own: put() and get() called in any order, get()    *)
(* also on an empty queue (QueueSpec).                                     *)
(***************************************************************************)
\* one InMemoryQueue.put(item) call
QueuePutCall ==
    /\ Len(calls) < MaxQueueOps
    /\ \E item \in Identities :
           /\ dq' = QueuePut(dq, item)
           /\ calls' = Append(calls, [op |-> "put", item |-> <<item>>, raised |-> FALSE,
                                      len0 |-> Len(dq), len1 |-> Len(dq) + 1])
    /\ UNCHANGED <<clock, running_scheduler, last_minute_key, seen, pstate, running_item,
                   status, ev, qseq, nput, attempts, schedPuts, tickHist, nmanual>>

\* one InMemoryQueue.get() call
QueueGetCall ==
    /\ Len(calls) < MaxQueueOps
    /\ dq' = InMemoryQueueGet(dq).rest
    /\ calls' = Append(calls, [op |-> "get", item |-> InMemoryQueueGet(dq).item,
                               raised |-> InMemoryQueueGet(dq).raised,
                               len0 |-> Len(dq), len1 |-> Len(InMemoryQueueGet(dq).rest)])
    /\ UNCHANGED <<clock, running_scheduler, last_minute_key, seen, pstate, running_item,
                   status, ev, qseq, nput, attempts, schedPuts, tickHist, nmanual>>

QueueNext ==
    \/ QueuePutCall
    \/ QueueGetCall

QueueSpec == Init /\ [][QueueNext]_vars

(***************************************************************************)
(* The cancel button on its own: stop_current_process called in any state   *)
(* of the process, with any running item (CancelSpec).                     *)
(***************************************************************************)
CancelTools ==
    { <<"P", "y", "t", "h", "o", "n">>, <<"P", "Y", "T", "H", "O", "N">>, <<"p", "y", "t", "h", "o", "n", "3">>,
      <<"U", "i", "P", "a", "t", "h">>, <<"x">> }

CancelPaths ==
    { <<"s", ".", "p", "y">>, <<"S", ".", "P", "Y", "W">>, <<"d", "/", "s", ".", "p", "y">>,
      <<"s", ".", "p", "y", " ", "a">>, <<"r", ".", "e", "x", "e">>, <<"n", ".", "t", "x", "t">> }

\* the controller with any running item in any process state, the queue empty or not
CancelInit ==
    /\ clock = FirstTime
    /\ running_scheduler = FALSE
    /\ last_minute_key = <<>>
    /\ seen = {}
    /\ dq \in { <<>>, <<ManualItem(ProcB)>> }
    /\ pstate \in { "NotRunning", "Starting", "Running" }
    /\ running_item \in
           { <<>> } \cup { <<[processo |-> <<"J">>, ferramenta |-> t, caminho |-> c]>> :
                              t \in CancelTools, c \in CancelPaths }
    /\ status = ""
    /\ qseq = [i \in 1..Len(dq) |-> i]
    /\ nput = Len(dq)
    /\ attempts = <<>>
    /\ schedPuts = [id \in Identities |-> 0]
    /\ tickHist = [ok |-> FALSE, faulted |-> FALSE]
    /\ nmanual = 0
    /\ calls = <<>>
    /\ ev = [op |-> "init", tick |-> FALSE, hour |-> -1, fetched |-> FALSE, fault |-> "",
             nenq |-> 0, qlen0 |-> 0, pstate0 |-> "NotRunning", popped |-> FALSE,
             startState |-> "", started |-> FALSE, exc |-> "", logs |-> <<>>,
             exit |-> -1, item0 |-> <<>>, status0 |-> "", killed |-> FALSE]

\* the user presses "cancel": stop_current_process
CancelCall ==
    /\ Commit(StopCurrentProcess(Cur("cancel")))
    /\ UNCHANGED <<clock, running_scheduler, nmanual, calls>>

CancelNext == CancelCall

CancelSpec == CancelInit /\ [][CancelNext]_vars

(***************************************************************************)
(* The schedule matcher on its own: _matches and should_enqueue applied to  *)
(* arbitrary field texts, rows and snapshots (MatchSpec).                   *)
(***************************************************************************)
\* a snapshot outside December 2025
NewYearParts ==
    [year |-> <<"2", "0", "2", "6">>, month_name |-> <<"J", "a", "n", "u", "a", "r", "y">>, week_of_month |-> <<"1">>,
     weekday_name |-> <<"T", "h", "u", "r", "s", "d", "a", "y">>, day |-> <<"0", "1">>, hour |-> <<"0", "0">>, minute |-> <<"0", "0">>]

\* the TimeSnapshots the matcher is asked about
MatchNows == { GetNowParts(t) : t \in TimePoints } \cup { NewYearParts }

\* the values each schedule field of a row is drawn from: two spellings of the
\* wildcard, one specific value, one absent/empty/blank value
RowValues ==
    [ano |-> << <<"T", "o", "d", "o", "s">>, <<"t", "o", "d", "o", "s">>, <<"2", "0", "2", "5">>, NoneCell >>,
     meses_do_ano |-> << <<"T", "O", "D", "O", "S">>, <<" ", "T", "o", "d", "o", "s", " ">>, <<"D", "e", "c", "e", "m", "b", "e", "r">>, <<>> >>,
     semanas_do_mes |-> << <<"T", "o", "d", "o", "s">>, <<"T", "o", "D", "o", "S">>, <<"4">>, <<" ">> >>,
     dias_da_semana |-> << <<"T", "o", "d", "o", "s">>, <<"t", "o", "d", "o", "s">>, <<"F", "r", "i", "d", "a", "y">>, NoneCell >>,
     dia |-> << <<"T", "o", "d", "o", "s">>, <<"T", "O", "D", "O", "S">>, <<"2", "6">>, <<>> >>,
     hora |-> << <<"T", "o", "d", "o", "s">>, <<"t", "o", "d", "o", "s">>, <<"7">>, <<" ", " ">> >>,
     minuto |-> << <<"T", "o", "d", "o", "s">>, <<"T", "O", "D", "O", "S">>, <<"0", "5">>, NoneCell >>]

ScheduleFields == DOMAIN RowValues

\* the schedule row whose field f holds the k[f]-th value of RowValues[f]
RowOf(k) ==
    [Nome_Processo |-> <<"A">>, Ferramenta |-> <<"x">>, Caminho |-> <<"c">>,
     ano |-> RowValues.ano[k.ano], meses_do_ano |-> RowValues.meses_do_ano[k.meses_do_ano],
     semanas_do_mes |-> RowValues.semanas_do_mes[k.semanas_do_mes],
     dias_da_semana |-> RowValues.dias_da_semana[k.dias_da_semana],
     dia |-> RowValues.dia[k.dia], hora |-> RowValues.hora[k.hora],
     minuto |-> RowValues.minuto[k.minuto]]

\* numeric field texts, padded and unpadded
NumericTokens ==
    { <<"7">>, <<"0", "7">>, <<"0", "0", "7">>, <<"8">>, <<"1", "7">>, <<"7", "0">>, <<"0">>, <<"0", "0">> }

\* numeric snapshot values
NumericValues == { <<"0", "7">>, <<"7">>, <<"1", "7">>, <<"0", "0">>, <<"0", "8">> }

\* multi-value field texts with the tokens they are made of
MultiCases ==
    { [text |-> <<"0", "7", ",", "0", "8">>, tokens |-> << <<"0", "7">>, <<"0", "8">> >>],
      [text |-> <<"0", "7", ";", "0", "8">>, tokens |-> << <<"0", "7">>, <<"0", "8">> >>],
      [text |-> <<"0", "7", "|", "0", "8">>, tokens |-> << <<"0", "7">>, <<"0", "8">> >>],
      [text |-> <<"0", "7", ",", " ", "0", "8">>, tokens |-> << <<"0", "7">>, <<"0", "8">> >>],
      [text |-> <<"7", ";", "0", "8">>, tokens |-> << <<"7">>, <<"0", "8">> >>],
      [text |-> <<"7", ";", "0", "8", "|", "9">>, tokens |-> << <<"7">>, <<"0", "8">>, <<"9">> >>],
      [text |-> <<"0", "7", " ", ",", ",", " ", "0", "8">>, tokens |-> << <<"0", "7">>, <<"0", "8">> >>],
      [text |-> <<"F", "r", "i", "d", "a", "y", ";", "S", "a", "t", "u", "r", "d", "a", "y">>, tokens |-> << <<"F", "r", "i", "d", "a", "y">>, <<"S", "a", "t", "u", "r", "d", "a", "y">> >>] }

\* snapshot values the multi-value texts are matched against
MultiValues == { <<"0", "7">>, <<"0", "8">>, <<"0", "9">>, <<"7">>, <<"1", "0">>, <<"F", "r", "i", "d", "a", "y">>, <<"S", "u", "n", "d", "a", "y">> }

\* single tokens, numeric and not, in several letter cases
TokenSamples ==
    { <<"7">>,
      <<"0", "7">>,
      <<"1", "7">>,
      <<"7", "0">>,
      <<"x", "7">>,
      <<"7", "x">>,
      <<"7", ".", "0">>,
      <<"F", "r", "i", "d", "a", "y">>,
      <<"f", "r", "i", "d", "a", "y">>,
      <<"F", "R", "I", "D", "A", "Y">>,
      <<"F", "r", "i">>,
      <<"s", "e", "x", "t", "a", "-", "f", "e", "i", "r", "a">>,
      <<"D", "e", "z", "e", "m", "b", "r", "o">>,
      <<"D", "e", "c", "e", "m", "b", "e", "r">> }

\* snapshot values the single tokens are compared with
TokenValues ==
    { <<"7">>,
      <<"0", "7">>,
      <<"1", "7">>,
      <<"F", "r", "i", "d", "a", "y">>,
      <<"F", "r", "i">>,
      <<"d", "a", "y">>,
      <<"s", "e", "x", "t", "a", "-", "f", "e", "i", "r", "a">>,
      <<"D", "e", "z", "e", "m", "b", "r", "o">>,
      <<"D", "e", "c">>,
      <<" ", "0", "7", " ">> }

\* whole-number float-looking field values: the texts the DB layer hands over,
\* and the float cells a spreadsheet row carries
FloatLooking ==
    { [cell |-> <<"7", ".", "0">>, whole |-> 7],
      [cell |-> <<" ", "7", ".", "0", " ">>, whole |-> 7],
      [cell |-> <<"1", "7", ".", "0">>, whole |-> 17],
      [cell |-> FloatCell(<<"7", ".", "0">>), whole |-> 7],
      [cell |-> FloatCell(<<"1", "7", ".", "0">>), whole |-> 17] }

\* floats that are not whole numbers, and not-a-number
OtherFloats == { FloatCell(<<"7", ".", "5">>), NaNCell }

MatchFields ==
    NumericTokens \cup { c.text : c \in MultiCases } \cup { c.cell : c \in FloatLooking }
        \cup OtherFloats

MatchValues == NumericValues \cup MultiValues

\* the controller untouched, with one question put to the matcher: a field text
\* and a snapshot value for _matches, or a row and a snapshot for should_enqueue
MatchInit ==
    /\ clock = FirstTime
    /\ running_scheduler = FALSE
    /\ last_minute_key = <<>>
    /\ seen = {}
    /\ dq = <<>>
    /\ pstate = "NotRunning"
    /\ running_item = <<>>
    /\ status = ""
    /\ qseq = <<>>
    /\ nput = 0
    /\ attempts = <<>>
    /\ schedPuts = [id \in Identities |-> 0]
    /\ tickHist = [ok |-> FALSE, faulted |-> FALSE]
    /\ nmanual = 0
    /\ calls \in
           { << [op |-> "ask_matches", field |-> f, value |-> v] >> :
                 f \in MatchFields, v \in MatchValues }
           \cup
           { << [op |-> "ask_should_enqueue", row |-> RowOf(k), now |-> now] >> :
                 k \in [ScheduleFields -> 1..4], now \in MatchNows }
           \cup
           { << [op |-> "ask_token", token |-> t, value |-> v] >> :
                 t \in TokenSamples, v \in TokenValues }
    /\ ev = [op |-> "init", tick |-> FALSE, hour |-> -1, fetched |-> FALSE, fault |-> "",
             nenq |-> 0, qlen0 |-> 0, pstate0 |-> "NotRunning", popped |-> FALSE,
             startState |-> "", started |-> FALSE, exc |-> "", logs |-> <<>>,
             exit |-> -1, item0 |-> <<>>, status0 |-> "", killed |-> FALSE]

\* the _matches(field_value, now_value) call; calls then holds its answer
MatchCall ==
    /\ calls[1].op = "ask_matches"
    /\ calls' = << [op |-> "matches", field |-> calls[1].field,
                    value |-> calls[1].value,
                    res |-> Matches(calls[1].field, calls[1].value)] >>
    /\ UNCHANGED <<clock, running_scheduler, last_minute_key, seen, dq, pstate,
                   running_item, status, ev, qseq, nput, attempts, schedPuts, tickHist,
                   nmanual>>

\* the should_enqueue(row, now) call; calls then holds its answer
ShouldEnqueueCall ==
    /\ calls[1].op = "ask_should_enqueue"
    /\ calls' = << [op |-> "should_enqueue", row |-> calls[1].row, now |-> calls[1].now,
                    res |-> ShouldEnqueue(calls[1].row, calls[1].now)] >>
    /\ UNCHANGED <<clock, running_scheduler, last_minute_key, seen, dq, pstate,
                   running_item, status, ev, qseq, nput, attempts, schedPuts, tickHist,
                   nmanual>>

\* the token_matches(token, current) call; calls then holds its answer
TokenMatchCall ==
    /\ calls[1].op = "ask_token"
    /\ calls' = << [op |-> "token_matches", token |-> calls[1].token,
                    value |-> calls[1].value,
                    res |-> TokenMatches(calls[1].token, calls[1].value)] >>
    /\ UNCHANGED <<clock, running_scheduler, last_minute_key, seen, dq, pstate,
                   running_item, status, ev, qseq, nput, attempts, schedPuts, tickHist,
                   nmanual>>

MatchNext ==
    \/ MatchCall
    \/ ShouldEnqueueCall
    \/ TokenMatchCall

MatchSpec == MatchInit /\ [][MatchNext]_vars

(***************************************************************************)
(* The command builder on its own: build_subprocess_command, run_item and   *)
(* enqueue_manual applied to an arbitrary queue item (BuildSpec).           *)
(***************************************************************************)
\* spellings of the reserved tool identifier
UiPathForms == { <<"U", "i", "P", "a", "t", "h">>, <<"U", "I", "P", "A", "T", "H">>, <<" ", "u", "i", "p", "a", "t", "h", " ">> }

\* tools that are not the reserved identifier
OtherTools == { <<"o", "t", "h", "e", "r">>, <<"p", "y", "t", "h", "o", "n">> }

BuildTools == { NoneCell, <<>>, <<" ">> } \cup UiPathForms \cup OtherTools

\* paths: binaries, scripts with and without arguments, files that exist and
\* files that do not, a directory, a path with a blank in it
BuildPaths ==
    { NoneCell, <<>>, <<" ">>,
      <<"r", ".", "e", "x", "e">>,
      <<"s", ".", "p", "y">>,
      <<"s", ".", "p", "y", " ", "a", " ", "b">>,
      <<"S", ".", "P", "Y">>,
      <<"m", ".", "p", "y", "w", " ", "x">>,
      <<"p", " ", "q", ".", "p", "y", " ", "x">>,
      <<"n", ".", "t", "x", "t">>,
      <<"n", ".", "t", "x", "t", " ", "a">>,
      <<"d", "\\", "n", ".", "t", "x", "t">>,
      <<"q", ".", "t", "x", "t">>,
      <<"d">>,
      <<"x", ".", "b", "a", "t">>,
      <<"y", ".", "p", "s", "1", " ", "a">>,
      <<"z", ".", "l", "n", "k", " ", "a">>,
      <<"d", " ", "r", ".", "e", "x", "e">>,
      <<"t", "o", "o", "l">> }

BuildNames == { <<"X">>, NoneCell }

BuildItems ==
    { [processo |-> n, ferramenta |-> t, caminho |-> c] :
          n \in BuildNames, t \in BuildTools, c \in BuildPaths }

\* script paths with the script and the trailing arguments they are made of
PyCases ==
    { [path |-> <<"s", ".", "p", "y">>, script |-> <<"s", ".", "p", "y">>, args |-> <<>>],
      [path |-> <<"s", ".", "p", "y", " ", "a", " ", "b">>, script |-> <<"s", ".", "p", "y">>, args |-> << <<"a">>, <<"b">> >>],
      [path |-> <<"S", ".", "P", "Y">>, script |-> <<"S", ".", "P", "Y">>, args |-> <<>>],
      [path |-> <<"m", ".", "p", "y", "w", " ", "x">>, script |-> <<"m", ".", "p", "y", "w">>, args |-> << <<"x">> >>],
      [path |-> <<"p", " ", "q", ".", "p", "y", " ", "x">>, script |-> <<"p", " ", "q", ".", "p", "y">>, args |-> << <<"x">> >>] }

\* command lines with the tokens shlex.split(posix=False) makes of them
SplitCases ==
    { [raw |-> <<"s", ".", "p", "y">>, shell |-> << <<"s", ".", "p", "y">> >>],
      [raw |-> <<"p", " ", "q", ".", "p", "y">>, shell |-> << <<"p">>, <<"q", ".", "p", "y">> >>],
      [raw |-> <<" ", "s", ".", "p", "y", " ">>, shell |-> << <<"s", ".", "p", "y">> >>],
      [raw |-> <<"p", " ", "q", ".", "p", "y", " ", "x", " ", "y">>, shell |-> << <<"p">>, <<"q", ".", "p", "y">>, <<"x">>, <<"y">> >>],
      [raw |-> <<"p", " ", " ", "q", ".", "p", "y", " ", "x">>, shell |-> << <<"p">>, <<"q", ".", "p", "y">>, <<"x">> >>],
      [raw |-> <<"s", ".", "p", "y", " ", "a", " ", "b">>, shell |-> << <<"s", ".", "p", "y">>, <<"a">>, <<"b">> >>],
      [raw |-> <<"s", ".", "p", "y", " ", "p", " ", "q", ".", "p", "y">>, shell |-> << <<"s", ".", "p", "y">>, <<"p">>, <<"q", ".", "p", "y">> >>],
      [raw |-> <<"q", ".", "t", "x", "t", " ", "a">>, shell |-> << <<"q", ".", "t", "x", "t">>, <<"a">> >>],
      [raw |-> <<"r", ".", "e", "x", "e", " ", "-", "k", " ", "v">>, shell |-> << <<"r", ".", "e", "x", "e">>, <<"-", "k">>, <<"v">> >>],
      [raw |-> <<"e", " ", "f", " ", "x">>, shell |-> << <<"e">>, <<"f">>, <<"x">> >>],
      [raw |-> <<"d", " ", "s", ".", "p", "y">>, shell |-> << <<"d">>, <<"s", ".", "p", "y">> >>],
      [raw |-> <<"\"", "p", " ", "q", ".", "p", "y", "\"", " ", "x">>, shell |-> << <<"\"", "p", " ", "q", ".", "p", "y", "\"">>, <<"x">> >>],
      [raw |-> <<"t", "o", "o", "l">>, shell |-> << <<"t", "o", "o", "l">> >>] }

\* tools and names of the items built in pairs: none is blank or reserved
PairTools == OtherTools \cup { <<"P", "y", "t", "h", "o", "n">>, <<" ", "x", " ">> }

PairNames == { <<"X">>, <<"Y">> }

\* the paths of the items built in pairs
PairPaths == BuildPaths \ { NoneCell, <<>>, <<" ">> }

\* the processes row that carries the item's three fields
RowOfItem(item) == Proc(item.processo, item.ferramenta, item.caminho, Wild, Wild, TRUE)

\* the controller idle with an empty queue, and one item to be built
BuildInit ==
    /\ clock = FirstTime
    /\ running_scheduler = FALSE
    /\ last_minute_key = <<>>
    /\ seen = {}
    /\ dq = <<>>
    /\ pstate = "NotRunning"
    /\ running_item = <<>>
    /\ status = ""
    /\ qseq = <<>>
    /\ nput = 0
    /\ attempts = <<>>
    /\ calls \in { << [op |-> "ask", item |-> it] >> : it \in BuildItems }
                 \cup { << [op |-> "ask_split", raw |-> c.raw] >> : c \in SplitCases }
                 \cup { << [op |-> "ask_pair",
                             one |-> [processo |-> n1, ferramenta |-> t1, caminho |-> c],
                             two |-> [processo |-> n2, ferramenta |-> t2, caminho |-> c]] >> :
                            n1 \in PairNames, n2 \in PairNames, t1 \in PairTools,
                            t2 \in PairTools, c \in PairPaths }
    /\ schedPuts = [id \in Identities \cup
                             (IF calls[1].op = "ask"
                              THEN { ToProcessItem(RowOfItem(calls[1].item)) } ELSE {})
                         |-> 0]
    /\ tickHist = [ok |-> FALSE, faulted |-> FALSE]
    /\ nmanual = 0
    /\ ev = [op |-> "init", tick |-> FALSE, hour |-> -1, fetched |-> FALSE, fault |-> "",
             nenq |-> 0, qlen0 |-> 0, pstate0 |-> "NotRunning", popped |-> FALSE,
             startState |-> "", started |-> FALSE, exc |-> "", logs |-> <<>>,
             exit |-> -1, item0 |-> <<>>, status0 |-> "", killed |-> FALSE]

\* the build_subprocess_command(item) call; calls then holds its result
BuildCall ==
    /\ calls[1].op = "ask"
    /\ calls' = << [op |-> "build", item |-> calls[1].item,
                    res |-> BuildSubprocessCommand(calls[1].item)] >>
    /\ UNCHANGED <<clock, running_scheduler, last_minute_key, seen, dq, pstate,
                   running_item, status, ev, qseq, nput, attempts, schedPuts, tickHist,
                   nmanual>>

\* the run_item(item) call; calls then holds what it raised and launched
RunItemCall ==
    /\ calls[1].op = "ask"
    /\ \E outcome \in RunOutcomes :
           calls' = << [op |-> "run_item", item |-> calls[1].item,
                        res |-> RunItem(calls[1].item, outcome)] >>
    /\ UNCHANGED <<clock, running_scheduler, last_minute_key, seen, dq, pstate,
                   running_item, status, ev, qseq, nput, attempts, schedPuts, tickHist,
                   nmanual>>

\* the item handed to the dispatcher: enqueue_manual(item) on the idle controller
DispatchCall ==
    /\ calls[1].op = "ask"
    /\ Commit(EnqueueManualItem(Cur("enqueue_manual"), calls[1].item))
    /\ calls' = << [op |-> "dispatch", item |-> calls[1].item] >>
    /\ UNCHANGED <<clock, running_scheduler, nmanual>>

\* the item met by the scheduler: tick_once on a job source whose only row is the
\* item's, enabled and due at every minute
ScheduledCall ==
    /\ calls[1].op = "ask"
    /\ Commit(TickOnceOver(Cur("tick_once"), <<RowOfItem(calls[1].item)>>,
                           GetNowParts(clock)))
    /\ calls' = << [op |-> "tick_once", item |-> calls[1].item] >>
    /\ UNCHANGED <<clock, running_scheduler, nmanual>>

\* the _split_command_windows(raw) call; calls then holds the tokens returned
SplitCall ==
    /\ calls[1].op = "ask_split"
    /\ calls' = << [op |-> "split", raw |-> calls[1].raw,
                    res |-> SplitCommandWindows(calls[1].raw)] >>
    /\ UNCHANGED <<clock, running_scheduler, last_minute_key, seen, dq, pstate,
                   running_item, status, ev, qseq, nput, attempts, schedPuts, tickHist,
                   nmanual>>

\* build_subprocess_command called for two items with the same path; calls then
\* holds both results
PairCall ==
    /\ calls[1].op = "ask_pair"
    /\ calls' = << [op |-> "pair", one |-> calls[1].one, two |-> calls[1].two,
                    res1 |-> BuildSubprocessCommand(calls[1].one),
                    res2 |-> BuildSubprocessCommand(calls[1].two)] >>
    /\ UNCHANGED <<clock, running_scheduler, last_minute_key, seen, dq, pstate,
                   running_item, status, ev, qseq, nput, attempts, schedPuts, tickHist,
                   nmanual>>

BuildNext ==
    \/ BuildCall
    \/ RunItemCall
    \/ DispatchCall
    \/ ScheduledCall
    \/ SplitCall
    \/ PairCall

BuildSpec == BuildInit /\ [][BuildNext]_vars

(***************************************************************************)
(* The job key on its own: allow() called for two jobs within one minute    *)
(* (KeySpec).                                                               *)
(***************************************************************************)
\* display names, tools and paths, some of which contain the "|" of the key
KeyNames == { <<"a">>, <<"a", "|", "b">>, <<"A">> }

KeyTools == { <<"c">>, <<"b", "|", "c">>, <<"x">> }

KeyPaths == { <<"p">>, <<"c", "|", "p">> }

KeyItems ==
    { [processo |-> n, ferramenta |-> t, caminho |-> c] :
          n \in KeyNames, t \in KeyTools, c \in KeyPaths }

\* a fresh guard and two jobs to be offered to it
KeyInit ==
    /\ clock \in { t \in TimePoints : InWindow(t.hour) }
    /\ running_scheduler = FALSE
    /\ last_minute_key = <<>>
    /\ seen = {}
    /\ dq = <<>>
    /\ pstate = "NotRunning"
    /\ running_item = <<>>
    /\ status = ""
    /\ qseq = <<>>
    /\ nput = 0
    /\ attempts = <<>>
    /\ schedPuts = [id \in Identities |-> 0]
    /\ tickHist = [ok |-> FALSE, faulted |-> FALSE]
    /\ nmanual = 0
    /\ calls \in { << [op |-> "ask_allow", one |-> a, two |-> b] >> :
                       a \in KeyItems, b \in KeyItems }
    /\ ev = [op |-> "init", tick |-> FALSE, hour |-> -1, fetched |-> FALSE, fault |-> "",
             nenq |-> 0, qlen0 |-> 0, pstate0 |-> "NotRunning", popped |-> FALSE,
             startState |-> "", started |-> FALSE, exc |-> "", logs |-> <<>>,
             exit |-> -1, item0 |-> <<>>, status0 |-> "", killed |-> FALSE]

\* the guard after allow(one, now) and the answer to allow(two, now) that follows
AllowSecond(first, two, now) ==
    [ok1 |-> first.ok, second |-> GuardAllow(first.guard, two, now)]

\* allow(one, now) then allow(two, now) in the same minute, as the loop of
\* tick_once does for two due jobs; calls then holds both answers
KeyCall ==
    /\ calls[1].op = "ask_allow"
    /\ \E r \in { AllowSecond(GuardAllow([last_minute_key |-> last_minute_key,
                                            seen |-> seen],
                                           calls[1].one, GetNowParts(clock)),
                                calls[1].two, GetNowParts(clock)) } :
           /\ last_minute_key' = r.second.guard.last_minute_key
           /\ seen' = r.second.guard.seen
           /\ calls' = << [op |-> "allow_pair", one |-> calls[1].one,
                           two |-> calls[1].two, ok1 |-> r.ok1,
                           ok2 |-> r.second.ok] >>
    /\ UNCHANGED <<clock, running_scheduler, dq, pstate, running_item, status, ev, qseq,
                   nput, attempts, schedPuts, tickHist, nmanual>>

KeyNext == KeyCall

KeySpec == KeyInit /\ [][KeyNext]_vars

(***************************************************************************)
(* gui_controller.py: the day's agenda (list_today_schedule) and the       *)
(* process-wide LC_TIME locale that time.strftime reads.                   *)
(***************************************************************************)
\* values of LC_TIME: "C" is what the interpreter starts with, "pt_BR" is an
\* operating-system default that renders names in Portuguese
Locales == {"C", "pt_BR"}

\* time.strftime("%B") under LC_TIME lc (December 2025)
MonthNameIn(lc) ==
    IF lc = "C" THEN MonthName ELSE <<"d", "e", "z", "e", "m", "b", "r", "o">>

\* time.strftime("%A") under LC_TIME lc (26 December 2025 is a Friday)
WeekdayNameIn(lc, day) ==
    IF lc = "C" THEN WeekdayName(day)
    ELSE CASE day = 26 -> <<"s", "e", "x", "t", "a", "-", "f", "e", "i", "r", "a">>

\* the NowParts that the strftime calls of get_now_parts and of
\* list_today_schedule build for local time t while LC_TIME is lc
StrftimeParts(lc, t) ==
    [GetNowParts(t) EXCEPT !.month_name = MonthNameIn(lc),
                           !.weekday_name = WeekdayNameIn(lc, t.day)]

\* LC_TIME after the one-time initialisation of get_now_parts:
\* locale.setlocale(LC_TIME, "") selects the operating system's default
LocaleAfterInit(os_locale) == os_locale

\* the minutes of a day the model samples, in clock order
DayMinutes ==
    << [hour |-> 6, minute |-> 59], [hour |-> 7, minute |-> 0],
       [hour |-> 7, minute |-> 5], [hour |-> 17, minute |-> 5],
       [hour |-> 17, minute |-> 59], [hour |-> 18, minute |-> 0],
       [hour |-> 18, minute |-> 5] >>

SecondOfDay(m) == (m.hour * 60 + m.minute) * 60

\* range(start, end, 60) with start = 07:00:00 and end = 18:00:00 of the day
RangeMinutes ==
    SelectSeq(DayMinutes, LAMBDA m : /\ WindowStart * 3600 <= SecondOfDay(m)
                                     /\ SecondOfDay(m) < WindowEnd * 3600)

\* the tables of the agenda model: the rows of ProcA and ProcB with their month,
\* weekday, hour and enabled columns varied
AgendaTables ==
    { << [ProcA EXCEPT !.meses_do_ano = mes, !.dias_da_semana = dia, !.enabled = en],
         [ProcB EXCEPT !.meses_do_ano = mesB, !.hora = hora] >> :
          mes \in { Wild, MonthNameIn("C"), MonthNameIn("pt_BR") },
          dia \in { Wild, WeekdayNameIn("C", 26), WeekdayNameIn("pt_BR", 26) },
          en \in BOOLEAN,
          mesB \in { Wild, MonthNameIn("pt_BR") },
          hora \in { Wild, <<"1", "7">>, <<"1", "8">> } }

\* list_processes(enabled_only=True) over a given table
ListEnabled(table) == SelectSeq(table, LAMBDA p : p.enabled)

\* the dict list_today_schedule appends for a row that is due at now_parts
AgendaEntry(proc, now) ==
    [hora |-> now.hour \o <<":">> \o now.minute, processo |-> proc.Nome_Processo,
     ferramenta |-> proc.Ferramenta, caminho |-> proc.Caminho]

\* the inner loop of list_today_schedule: the entries of one minute
AgendaMinute(procs, now) ==
    LET due == SelectSeq(procs, LAMBDA p : ShouldEnqueue(ProcessToScheduleRow(p), now))
    IN  [k \in 1..Len(due) |-> AgendaEntry(due[k], now)]

RECURSIVE AgendaLoop(_, _, _, _, _)
\* the outer loop of list_today_schedule over the minutes of the day, from the
\* i-th on, while LC_TIME is lc
AgendaLoop(procs, lc, day, minutes, i) ==
    IF i > Len(minutes) THEN <<>>
    ELSE AgendaMinute(procs, StrftimeParts(lc, [day |-> day, hour |-> minutes[i].hour,
                                                minute |-> minutes[i].minute]))
         \o AgendaLoop(procs, lc, day, minutes, i + 1)

\* the characters of the sort keys, in code point order
SortChars == Digits \o <<":">> \o LowerChars

CharRank(c) == CHOOSE k \in 1..Len(SortChars) : SortChars[k] = c

RECURSIVE StrLess(_, _)
\* a < b for two Python strings
StrLess(a, b) ==
    IF Len(b) = 0 THEN FALSE
    ELSE IF Len(a) = 0 THEN TRUE
    ELSE IF a[1] # b[1] THEN CharRank(a[1]) < CharRank(b[1])
    ELSE StrLess(Tail(a), Tail(b))

\* the sort key of list_today_schedule: (hora, processo.casefold())
AgendaKeyLess(a, b) ==
    \/ StrLess(a.hora, b.hora)
    \/ a.hora = b.hora /\ StrLess(Lower(a.processo), Lower(b.processo))

RECURSIVE SortAgenda(_)
\* out.sort(key=...): a stable sort; the last entry goes after every entry whose
\* key is not greater than its own
SortAgenda(out) ==
    IF Len(out) <= 1 THEN out
    ELSE LET x == out[Len(out)]
             rest == SortAgenda(SubSeq(out, 1, Len(out) - 1))
             keep == SelectSeq(rest, LAMBDA y : ~AgendaKeyLess(x, y))
             move == SelectSeq(rest, LAMBDA y : AgendaKeyLess(x, y))
         IN  keep \o <<x>> \o move

\* list_today_schedule for the given day while LC_TIME is lc
ListTodaySchedule(table, lc, day) ==
    SortAgenda(AgendaLoop(ListEnabled(table), lc, day, RangeMinutes, 1))

\* _on_scheduler_tick over a given table: outside the window nothing is read;
\* inside it get_now_parts renders the names in the initialised locale
AgendaTickOver(st, table, os_locale, t, hour) ==
    IF ~InWindow(hour)
    THEN [st EXCEPT !.ev.tick = TRUE, !.ev.hour = hour, !.status = "fora_do_horario"]
    ELSE DrainQueueIfIdle(TickCaught(
             TickOnceOver([st EXCEPT !.ev.tick = TRUE, !.ev.hour = hour],
                          ListEnabled(table),
                          StrftimeParts(LocaleAfterInit(os_locale), t))))

\* a freshly started application: LC_TIME is "C", get_now_parts has not run
\* (_LOCALE_INITIALIZED is False); calls holds the table, the operating system's
\* locale, LC_TIME, the initialisation flag and the last agenda returned
AgendaInit ==
    /\ clock \in { t \in TimePoints : t.day = 26 }
    /\ running_scheduler = TRUE
    /\ last_minute_key = <<>>
    /\ seen = {}
    /\ dq = <<>>
    /\ pstate = "NotRunning"
    /\ running_item = <<>>
    /\ status = ""
    /\ qseq = <<>>
    /\ nput = 0
    /\ attempts = <<>>
    /\ schedPuts = [id \in Identities |-> 0]
    /\ tickHist = [ok |-> FALSE, faulted |-> FALSE]
    /\ nmanual = 0
    /\ calls \in { << [op |-> "ask_agenda", table |-> tb, os_locale |-> os,
                       lc_time |-> "C", initialized |-> FALSE, ticked |-> FALSE,
                       agenda |-> <<>>] >> :
                       tb \in AgendaTables, os \in Locales }
    /\ ev = [op |-> "init", tick |-> FALSE, hour |-> -1, fetched |-> FALSE, fault |-> "",
             nenq |-> 0, qlen0 |-> 0, pstate0 |-> "NotRunning", popped |-> FALSE,
             startState |-> "", started |-> FALSE, exc |-> "", logs |-> <<>>,
             exit |-> -1, item0 |-> <<>>, status0 |-> "", killed |-> FALSE]

\* MainWindow._reload_today_schedule: list_today_schedule() under the current
\* LC_TIME; calls then holds the agenda returned
AgendaListCall ==
    /\ calls[1].op = "ask_agenda"
    /\ calls' = << [calls[1] EXCEPT
                       !.op = "agenda",
                       !.agenda = ListTodaySchedule(calls[1].table, calls[1].lc_time,
                                                    clock.day)] >>
    /\ UNCHANGED <<clock, running_scheduler, last_minute_key, seen, dq, pstate,
                   running_item, status, ev, qseq, nput, attempts, schedPuts, tickHist,
                   nmanual>>

\* the first timer tick: _on_scheduler_tick; inside the window get_now_parts
\* initialises LC_TIME before it reads the clock
AgendaTick ==
    /\ ~calls[1].ticked
    /\ Commit(AgendaTickOver(Cur("tick"), calls[1].table, calls[1].os_locale, clock,
                             ToInt(Pad2(clock.hour))))
    /\ calls' = << [calls[1] EXCEPT
                       !.op = "ask_agenda",
                       !.ticked = TRUE,
                       !.initialized = @ \/ InWindow(ToInt(Pad2(clock.hour))),
                       !.lc_time = IF InWindow(ToInt(Pad2(clock.hour)))
                                   THEN LocaleAfterInit(calls[1].os_locale) ELSE @] >>
    /\ UNCHANGED <<clock, running_scheduler, nmanual>>

AgendaNext == AgendaListCall \/ AgendaTick

AgendaSpec == AgendaInit /\ [][AgendaNext]_vars

(***************************************************************************)
(* Properties.                                                             *)
(***************************************************************************)
ItemA == ManualItem(ProcA)

At0705 == clock.hour = 7 /\ clock.minute = 5

HasLog(tag, code) ==
    \E i \in 1..Len(ev.logs) : ev.logs[i].tag = tag /\ ev.logs[i].code = code

\* C1: at most one external execution is in flight: whenever a handler passes a
\* job to _start_item, the QProcess is NotRunning at that moment (it is never
\* Starting or Running), under every interleaving of ticks, manual enqueues and
\* process events.
C1_StartOnlyWhenIdle ==
    /\ pstate \in {"NotRunning", "Starting", "Running"}
    /\ ev.popped => ev.startState = "NotRunning"
    /\ ev.started => ev.popped

\* C1 witness: the completion handler started the next job while more are queued.
C1_Witness ==
    /\ ev.op = "finished"
    /\ ev.started
    /\ pstate = "Starting"
    /\ Len(attempts) >= 2
    /\ Len(dq) >= 1

\* C2: jobs are passed to _start_item in the order they were put on the queue
\* (serial 1, 2, 3, ...; the queue holds the serials not yet attempted, in order),
\* and a tick that runs while a process is Starting or Running starts nothing.
C2_FifoStartOrder ==
    /\ \A i \in 1..Len(attempts) : attempts[i] = i
    /\ \A j \in 1..Len(qseq) : qseq[j] = Len(attempts) + j
    /\ Len(attempts) + Len(qseq) = nput
    /\ Len(qseq) = Len(dq)
    /\ (ev.tick /\ ev.pstate0 # "NotRunning") => (~ev.popped /\ pstate = ev.pstate0)

\* C2 witness: a tick enqueued jobs while a job was running, after two starts.
C2_Witness ==
    /\ ev.tick
    /\ ev.nenq >= 2
    /\ ev.pstate0 = "Running"
    /\ Len(attempts) >= 2
    /\ Len(dq) >= 2

\* C3: within one minute of the clock the scheduler puts each job identity on
\* the queue at most once, however many ticks fall in that minute and whether
\* they come from the timer or from stopping and restarting the scheduler.
C3_NoDuplicateInMinute == \A id \in Identities : schedPuts[id] <= 1

\* C3 witness: the immediate tick of a restart fetched the due jobs in a minute
\* in which they were already queued, and enqueued nothing.
C3_Witness ==
    /\ ev.op = "start_scheduler"
    /\ ev.fetched
    /\ ev.fault = ""
    /\ ev.nenq = 0
    /\ schedPuts[ItemA] = 1

\* C4 (as claimed): among all allow() calls, with arbitrary snapshots, no two
\* calls with the same job key and the same minute key both return true.
C4_Original ==
    \A i, j \in 1..Len(calls) :
        (i < j /\ calls[i].key = calls[j].key /\ calls[i].mkey = calls[j].mkey)
            => ~(calls[i].ok /\ calls[j].ok)

\* C4 (amended): no two allow() calls with the same job key and the same minute
\* key both return true, provided no call with a different minute key was made
\* between them.
C4_NoDoubleAcceptWithinRun ==
    \A i, j \in 1..Len(calls) :
        (/\ i < j
         /\ calls[i].key = calls[j].key
         /\ \A k \in i..j : calls[k].mkey = calls[i].mkey)
            => ~(calls[i].ok /\ calls[j].ok)

\* C4 witness: a job accepted, another job accepted in the same minute, then the
\* first job rejected.
C4_Witness ==
    /\ Len(calls) >= 3
    /\ calls[1].key = calls[3].key
    /\ calls[1].key # calls[2].key
    /\ calls[1].mkey = calls[2].mkey
    /\ calls[2].mkey = calls[3].mkey
    /\ calls[1].ok
    /\ calls[2].ok
    /\ ~calls[3].ok

\* C5: of two consecutive allow() calls with the same job identity and minute
\* key the second returns false, and the first returns true when it opens the
\* minute; a call whose minute key differs from the previous call's returns true,
\* replaces the stored key and leaves exactly its own job key in the seen-set.
C5_TrueThenFalseThenReset ==
    /\ \A i \in 1..Len(calls) :
           (i = 1 \/ calls[i].mkey # calls[i - 1].mkey) => calls[i].ok
    /\ \A i \in 1..(Len(calls) - 1) :
           (calls[i].key = calls[i + 1].key /\ calls[i].mkey = calls[i + 1].mkey)
               => ~calls[i + 1].ok
    /\ Len(calls) > 0 => last_minute_key = calls[Len(calls)].mkey
    /\ (Len(calls) > 1 /\ calls[Len(calls)].mkey # calls[Len(calls) - 1].mkey)
           => seen = {calls[Len(calls)].key}
    /\ Len(calls) = 1 => seen = {calls[1].key}

\* C5 witness: the same job accepted, rejected in the same minute, and accepted
\* again once the minute key has changed.
C5_Witness ==
    /\ Len(calls) = 3
    /\ calls[1].key = calls[2].key
    /\ calls[2].key = calls[3].key
    /\ calls[1].mkey = calls[2].mkey
    /\ calls[2].mkey # calls[3].mkey
    /\ calls[1].ok
    /\ ~calls[2].ok
    /\ calls[3].ok
    /\ seen = {calls[3].key}

\* C6: the entry with hora "07" and minuto "05": in a minute 07:05 whose ticks met
\* no fetch or log fault it has been enqueued exactly once as soon as one tick
\* has run, and stays at once for every further tick of that minute; at any other
\* minute (07:06) it is not enqueued; this holds again at 07:05 of the next day.
C6_EndToEnd ==
    /\ schedPuts[ItemA] <= 1
    /\ (At0705 /\ tickHist.ok /\ ~tickHist.faulted) => schedPuts[ItemA] = 1
    /\ ~At0705 => schedPuts[ItemA] = 0

\* C6 witness: at 07:05 of the second day, after the entry was enqueued on both
\* days, a further tick of the same minute enqueued nothing.
C6_Witness ==
    /\ clock.day = 27
    /\ At0705
    /\ ~tickHist.faulted
    /\ schedPuts[ItemA] = 1
    /\ ev.tick
    /\ ev.fetched
    /\ ev.nenq = 0
    /\ nput - nmanual >= 4

\* C7: a tick taken at a local hour outside [7, 18) fetches nothing, enqueues
\* nothing, writes no log, leaves the queue, the duplicate guard, the process and
\* the running item unchanged and emits the waiting status.
C7_OutsideWindowNoWork ==
    [][(ev'.tick /\ (clock.hour < 7 \/ clock.hour >= 18)) =>
          /\ dq' = dq
          /\ last_minute_key' = last_minute_key
          /\ seen' = seen
          /\ pstate' = pstate
          /\ running_item' = running_item
          /\ nput' = nput
          /\ attempts' = attempts
          /\ ~ev'.fetched
          /\ ev'.nenq = 0
          /\ ev'.logs = <<>>
          /\ status' = "fora_do_horario"]_vars

\* C7 witness: a tick at 18:05 with jobs waiting in the queue and an idle process.
C7_Witness ==
    /\ ev.tick
    /\ clock.hour = 18
    /\ status = "fora_do_horario"
    /\ Len(dq) >= 1
    /\ pstate = "NotRunning"

\* C8 (as claimed): every handler of a terminal outcome (exit code 0, nonzero exit
\* code, failure to launch) that finds a job in the queue pops it and passes it to
\* _start_item.
C8_TerminalDrains ==
    (ev.op \in {"finished", "crashed", "error"} /\ ev.qlen0 > 0) => ev.popped

\* C9 (as claimed): when the popped job cannot be turned into a command, the
\* error is logged, no exception leaves the handler, and the queue is not left
\* waiting behind an idle dispatcher.
C9_BuildErrorIsolated ==
    (ev.popped /\ ~ev.started) =>
        /\ ev.exc = ""
        /\ Len(ev.logs) > 0
        /\ ev.logs[Len(ev.logs)].tag = "comando_vazio"
        /\ (Len(dq) = 0 \/ pstate # "NotRunning")

\* C10: the completion handler of a nonzero exit code puts nothing on the queue,
\* logs the exit code, and what it starts, if anything, is the entry that was at
\* the head of the queue (a new serial, never the job that just ended).
C10_NoRetryOnFailure ==
    [][(ev'.op \in {"finished", "crashed"} /\ ev'.exit # 0) =>
          /\ nput' = nput
          /\ \E i \in 1..Len(ev'.logs) :
                 ev'.logs[i].tag = "finalizado_erro" /\ ev'.logs[i].code = ev'.exit
          /\ IF Len(dq) > 0
             THEN /\ ev'.popped
                  /\ dq' = Tail(dq)
                  /\ running_item' = <<Head(dq)>>
                  /\ attempts' = Append(attempts, Head(qseq))
                  /\ \A k \in 1..Len(attempts) : attempts[k] # Head(qseq)
             ELSE /\ ~ev'.popped
                  /\ dq' = dq
                  /\ running_item' = <<>>
                  /\ attempts' = attempts]_vars

\* C10 witness: a job ended with exit code 1 and the handler started the next one.
C10_Witness ==
    /\ ev.op = "finished"
    /\ ev.exit = 1
    /\ ev.started
    /\ HasLog("finalizado_erro", 1)

\* the jobs that are due at each minute of the model
DueAt == [t \in TimePoints |-> PollDueProcesses(GetNowParts(t))]

\* the minute key of each minute of the model
MinuteKeyAt == [t \in TimePoints |-> MinuteKey(GetNowParts(t))]

\* the jobs that are due at the minute the clock shows
DueNow == DueAt[clock]

\* C11 (as claimed): a tick in which the log sink raised for one due job has still
\* passed every other due job of that minute through the guard and put it on the
\* queue (at most the one job whose log call failed is missing from the queue).
C11_LogFaultSparesOthers ==
    (ev.tick /\ ev.fault = "log_error") =>
        /\ \A i \in 1..Len(DueNow) : JobKey(DueNow[i]) \in seen
        /\ Cardinality({ i \in 1..Len(DueNow) : schedPuts[DueNow[i]] = 0 }) <= 1

\* C12 (as claimed): every job the guard has accepted in the current minute has been
\* put on the queue by the tick that accepted it: when the guard's key is the
\* current minute, every job key in its seen-set belongs to a job the scheduler
\* put on the queue in this minute.
C12_AcceptedIsQueued ==
    last_minute_key = MinuteKeyAt[clock] =>
        \A id \in Identities : JobKey(id) \in seen => schedPuts[id] >= 1

C14_GraceBeforeNextStart ==
    (/\ ev.op = "finished"
     /\ ev.exit = 0
     /\ Len(ev.item0) > 0
     /\ Lower(Strip(ev.item0[1].ferramenta)) = UiPathTool) => ~ev.popped

\* C15: the scheduler becomes Running only by start_scheduler, which is taken from
\* Stopped and runs one tick at once, at the hour the clock shows; the timer's
\* ticks come only while the scheduler is Running and leave it Running, and
\* nothing but stop_scheduler ends Running (no tick, fault, closed window or
\* process event switches the timer off).
C15_StartTicksAndKeepsTicking ==
    [][/\ (~running_scheduler /\ running_scheduler') => ev'.op = "start_scheduler"
       /\ ev'.op = "start_scheduler" =>
              /\ ~running_scheduler
              /\ running_scheduler'
              /\ ev'.tick
              /\ ev'.hour = clock.hour
       /\ ev'.op = "timer" =>
              /\ running_scheduler
              /\ running_scheduler'
              /\ ev'.tick
              /\ ev'.hour = clock.hour
       /\ (running_scheduler /\ ~running_scheduler') => ev'.op = "stop_scheduler"]_vars

\* C15 witness: the immediate tick of a start fetched, enqueued both due jobs and
\* started the first one.
C15_Witness ==
    /\ ev.op = "start_scheduler"
    /\ running_scheduler
    /\ ev.tick
    /\ ev.fetched
    /\ ev.nenq = 2
    /\ ev.started

\* C16: stop_scheduler is taken from Running, switches the scheduler off and touches
\* neither the queue nor the process; while the scheduler is off no handler other
\* than start_scheduler runs a tick, and the scheduler puts nothing on the queue.
C16_StopBeforeNextTick ==
    [][/\ ev'.op = "stop_scheduler" =>
              /\ running_scheduler
              /\ ~running_scheduler'
              /\ dq' = dq
              /\ pstate' = pstate
              /\ nput' = nput
       /\ (~running_scheduler /\ ev'.op # "start_scheduler") =>
              /\ ~running_scheduler'
              /\ ~ev'.tick
              /\ ev'.nenq = 0
              /\ \A id \in Identities : schedPuts'[id] <= schedPuts[id]]_vars

\* C16 witness: with the scheduler stopped on the first day, 07:05 of the second
\* day has come, nothing was enqueued for it, and the dispatcher went on to start
\* the job that was still queued.
C16_Witness ==
    /\ ~running_scheduler
    /\ clock.day = 27
    /\ At0705
    /\ ev.op = "finished"
    /\ ev.started
    /\ nput - nmanual >= 2
    /\ \A id \in Identities : schedPuts[id] = 0

\* C17: a tick outside [7, 18) leaves the scheduler Running; and a timer tick
\* inside the window does the full work whatever came before it (in particular
\* ticks outside the window): it fetches unless the fetch itself fails, and when
\* it meets no fault every due job of the minute has passed the guard, and has
\* been put on the queue by this tick unless the guard had seen it in this minute.
C17_ResumesInsideWindow ==
    [][/\ (ev'.tick /\ (clock.hour < 7 \/ clock.hour >= 18)) => running_scheduler'
       /\ ev'.op = "timer" => (running_scheduler /\ running_scheduler')
       /\ (ev'.op = "timer" /\ clock.hour >= 7 /\ clock.hour < 18) =>
              /\ ev'.fault # "fetch_error" => ev'.fetched
              /\ ev'.fault = "" =>
                     \A i \in 1..Len(DueNow) :
                         /\ JobKey(DueNow[i]) \in seen'
                         /\ \/ schedPuts'[DueNow[i]] = schedPuts[DueNow[i]] + 1
                            \/ /\ last_minute_key = MinuteKeyAt[clock]
                               /\ JobKey(DueNow[i]) \in seen]_vars

\* C17 witness: a scheduler that worked on the first day and was last seen waiting
\* outside the window enqueued both due jobs at a timer tick of the next morning.
C17_Witness ==
    /\ ev.op = "timer"
    /\ ev.status0 = "fora_do_horario"
    /\ clock.day = 27
    /\ ev.nenq = 2
    /\ nput - nmanual >= 4

\* s ends with the characters of suffix
EndsWith(s, suffix) ==
    Len(s) >= Len(suffix) /\ SubSeq(s, Len(s) - Len(suffix) + 1, Len(s)) = suffix

\* the running item the cancel found is a cooperative script: tool "python" in any
\* case, or a path ending in .py or .pyw
CancelFoundScript ==
    /\ Len(ev.item0) > 0
    /\ \/ Lower(ev.item0[1].ferramenta) = <<"p", "y", "t", "h", "o", "n">>
       \/ EndsWith(Lower(ev.item0[1].caminho), <<".", "p", "y">>)
       \/ EndsWith(Lower(ev.item0[1].caminho), <<".", "p", "y", "w">>)

\* C18: stop_current_process kills the process exactly when a process is Starting
\* or Running and the running item is a cooperative script; otherwise it kills
\* nothing (it logs the refusal when a process runs, and does nothing at all when
\* none runs); in every case the handler itself leaves the process state, the
\* running item, the queue and the status as they were and starts nothing.
C18_CancelOnlyPython ==
    ev.op = "cancel" =>
        /\ ev.killed <=> (ev.pstate0 # "NotRunning" /\ CancelFoundScript)
        /\ (ev.pstate0 # "NotRunning" /\ ~ev.killed) => HasLog("cancelamento_recusado", -1)
        /\ ev.pstate0 = "NotRunning" => ev.logs = <<>>
        /\ pstate = ev.pstate0
        /\ running_item = ev.item0
        /\ Len(dq) = ev.qlen0
        /\ status = ev.status0
        /\ ~ev.popped
        /\ ~ev.started

\* C18 witness: a running job whose tool is not "python" was killed because its
\* path ends in .pyw, with a job waiting in the queue.
C18_Witness ==
    /\ ev.op = "cancel"
    /\ ev.killed
    /\ pstate = "Running"
    /\ Len(dq) = 1
    /\ Lower(ev.item0[1].ferramenta) = <<"x">>
    /\ ev.item0[1].caminho = <<"S", ".", "P", "Y", "W">>

RECURSIVE ItemsOf(_, _)
\* the values of the calls of kind op that returned normally, in call order
ItemsOf(cs, op) ==
    IF Len(cs) = 0 THEN <<>>
    ELSE IF Head(cs).op = op /\ ~Head(cs).raised
    THEN Head(cs).item \o ItemsOf(Tail(cs), op)
    ELSE ItemsOf(Tail(cs), op)

\* C19: under any interleaving of put() and get() the values get() has returned
\* are a prefix of the values put, in the same order, and the queue holds exactly
\* the rest of the values put, in the same order.
C19_FifoPrefix ==
    /\ Len(ItemsOf(calls, "get")) <= Len(ItemsOf(calls, "put"))
    /\ ItemsOf(calls, "get") =
           SubSeq(ItemsOf(calls, "put"), 1, Len(ItemsOf(calls, "get")))
    /\ dq = SubSeq(ItemsOf(calls, "put"), Len(ItemsOf(calls, "get")) + 1,
                   Len(ItemsOf(calls, "put")))

\* C19 witness: put, put, get, put, get: two different values returned in the
\* order they were put while a third waits in the queue.
C19_Witness ==
    /\ Len(calls) = 5
    /\ calls[1].op = "put"
    /\ calls[2].op = "put"
    /\ calls[3].op = "get"
    /\ calls[4].op = "put"
    /\ calls[5].op = "get"
    /\ calls[1].item # calls[2].item
    /\ calls[3].item = calls[1].item
    /\ calls[5].item = calls[2].item
    /\ dq = calls[4].item

\* C20: a get() raises queue.Empty exactly when the queue is empty; it then
\* returns no value and leaves the queue empty; a get() that does not raise
\* returns a value that was put and shortens the queue by one.
C20_EmptyGetRaises ==
    \A i \in 1..Len(calls) :
        calls[i].op = "get" =>
            /\ calls[i].raised <=> calls[i].len0 = 0
            /\ calls[i].raised => (calls[i].item = <<>> /\ calls[i].len1 = 0)
            /\ ~calls[i].raised =>
                   /\ Len(calls[i].item) = 1
                   /\ calls[i].item[1] \in Identities
                   /\ calls[i].len1 = calls[i].len0 - 1

\* C20 witness: a get() on a queue emptied by an earlier get() raised, and the
\* queue is still empty.
C20_Witness ==
    /\ Len(calls) = 3
    /\ calls[1].op = "put"
    /\ calls[2].op = "get"
    /\ ~calls[2].raised
    /\ calls[3].op = "get"
    /\ calls[3].raised
    /\ dq = <<>>

\* the spellings of the wildcard token used in the rows
WildcardForms == { <<"T", "o", "d", "o", "s">>, <<"t", "o", "d", "o", "s">>, <<"T", "O", "D", "O", "S">>, <<" ", "T", "o", "d", "o", "s", " ">>, <<"T", "o", "D", "o", "S">> }

\* absent, empty and blank field values
BlankForms == { NoneCell, <<>>, <<" ">>, <<" ", " ">> }

\* the NowParts attribute each schedule field is compared with
NowKey ==
    [ano |-> "year", meses_do_ano |-> "month_name", semanas_do_mes |-> "week_of_month",
     dias_da_semana |-> "weekday_name", dia |-> "day", hora |-> "hour",
     minuto |-> "minute"]

\* C21: a schedule entry whose seven schedule fields all hold the wildcard token,
\* in any letter case, is due (should_enqueue is true) at every TimeSnapshot.
C21_AllWildcardAlwaysDue ==
    \A i \in 1..Len(calls) :
        (/\ calls[i].op = "should_enqueue"
         /\ \A f \in ScheduleFields : calls[i].row[f] \in WildcardForms)
            => calls[i].res

\* should_enqueue has answered true for an all-wildcard row spelled in mixed case,
\* at a snapshot outside December 2025
C21_Witness ==
    \E i \in 1..Len(calls) :
        /\ calls[i].op = "should_enqueue"
        /\ \A f \in ScheduleFields : calls[i].row[f] \in WildcardForms
        /\ calls[i].row.ano = <<"t", "o", "d", "o", "s">>
        /\ calls[i].row.meses_do_ano = <<"T", "O", "D", "O", "S">>
        /\ calls[i].now = NewYearParts
        /\ calls[i].res

\* C22: for a numeric token t and a numeric snapshot value v the field matches
\* exactly when int(t) = int(v); "7" and "07" both match "07".
C22_PaddedEqualsUnpadded ==
    \A i \in 1..Len(calls) :
        (/\ calls[i].op = "matches"
         /\ calls[i].field \in NumericTokens
         /\ calls[i].value \in NumericValues)
            => (calls[i].res <=> (ToInt(calls[i].field) = ToInt(calls[i].value)))

\* _matches has answered true for the unpadded token "7" against the value "07"
C22_Witness ==
    \E i \in 1..Len(calls) :
        /\ calls[i].op = "matches"
        /\ calls[i].field = <<"7">>
        /\ calls[i].value = <<"0", "7">>
        /\ calls[i].res

\* C23: a multi-value field, split on comma, semicolon and pipe with surrounding
\* blanks ignored, matches exactly when at least one of its tokens matches the
\* snapshot value; "07,08" matches "07" and "08" but not "09".
C23_AnyTokenMatches ==
    \A i \in 1..Len(calls) :
        calls[i].op = "matches" =>
            /\ \A c \in MultiCases :
                   c.text = calls[i].field =>
                       (calls[i].res <=>
                            \E j \in 1..Len(c.tokens) :
                                TokenMatches(c.tokens[j], calls[i].value))
            /\ calls[i].field = <<"0", "7", ",", "0", "8">> =>
                   /\ calls[i].value \in { <<"0", "7">>, <<"0", "8">> } => calls[i].res
                   /\ calls[i].value = <<"0", "9">> => ~calls[i].res

\* _matches has answered true for a field mixing semicolon and pipe, on the
\* strength of its middle token
C23_Witness ==
    \E i \in 1..Len(calls) :
        /\ calls[i].op = "matches"
        /\ calls[i].field = <<"7", ";", "0", "8", "|", "9">>
        /\ calls[i].value = <<"0", "8">>
        /\ calls[i].res

\* C24: should_enqueue is the conjunction of the seven field matches, each field
\* matched on its own against its own snapshot attribute, and a row with any
\* schedule field absent, empty or blank is never due.
C24_ConjunctionOfFieldMatches ==
    \A i \in 1..Len(calls) :
        calls[i].op = "should_enqueue" =>
            /\ calls[i].res <=>
                   \A f \in ScheduleFields :
                       Matches(calls[i].row[f], calls[i].now[NowKey[f]])
            /\ (\E f \in ScheduleFields : calls[i].row[f] \in BlankForms)
                   => ~calls[i].res

\* should_enqueue has answered false for a row whose only fault is an absent
\* minute field
C24_Witness ==
    \E i \in 1..Len(calls) :
        /\ calls[i].op = "should_enqueue"
        /\ calls[i].row.minuto = NoneCell
        /\ \A f \in ScheduleFields \ {"minuto"} :
               Matches(calls[i].row[f], calls[i].now[NowKey[f]])
        /\ ~calls[i].res

\* the extensions build_subprocess_command has a launcher for
LauncherExts == ExtPy \cup ExtBat \cup { ExtPs1, ExtLnk }

\* the (stripped) fields build_subprocess_command reads from an item
ToolOf(item) == Strip(StrOrEmpty(item.ferramenta))

PathOf(item) == Strip(StrOrEmpty(item.caminho))

NameOf(item) == Strip(StrOrEmpty(item.processo))

\* the robot command line of an item
RobotCommand(item) == <<PathOf(item), WExecute, WProcessName, NameOf(item)>>

\* C25: for a job whose tool is "uipath" in any letter case and whose path is
\* not empty, the built command is exactly [path, "execute", "--process-name",
\* displayName], the path being one token whatever the filesystem contains;
\* run_item launches that command.
C25_RobotCommandUnsplit ==
    \A i \in 1..Len(calls) :
        (/\ calls[i].op \in {"build", "run_item"}
         /\ calls[i].item.ferramenta \in UiPathForms
         /\ calls[i].item.caminho \notin BlankForms)
            => /\ calls[i].op = "build" =>
                      /\ calls[i].res.ok
                      /\ calls[i].res.cmd = RobotCommand(calls[i].item)
               /\ calls[i].op = "run_item" =>
                      calls[i].res.launched = << RobotCommand(calls[i].item) >>

\* the builder has returned the robot command for a path with blanks in it whose
\* first word is an existing script
C25_Witness ==
    \E i \in 1..Len(calls) :
        /\ calls[i].op = "build"
        /\ calls[i].item.ferramenta = <<"U", "I", "P", "A", "T", "H">>
        /\ calls[i].item.caminho = <<"s", ".", "p", "y", " ", "a", " ", "b">>
        /\ calls[i].res.cmd = << <<"s", ".", "p", "y", " ", "a", " ", "b">>, WExecute, WProcessName, <<"X">> >>

\* C26: for a non-reserved tool, a path whose executable token ends in .py or
\* .pyw is built into [current runtime executable, script, trailing arguments];
\* a target with a launcher extension (.py/.pyw, .bat/.cmd, .ps1, .lnk) never
\* fails as unexecutable, whether or not it is an existing file.
C26_ScriptRunsUnderRuntime ==
    \A i \in 1..Len(calls) :
        (/\ calls[i].op = "build"
         /\ calls[i].item.ferramenta \in OtherTools
         /\ calls[i].item.caminho \notin BlankForms)
            => /\ \A c \in PyCases :
                      calls[i].item.caminho = c.path =>
                          /\ calls[i].res.ok
                          /\ calls[i].res.cmd = <<SysExecutable, c.script>> \o c.args
               /\ Lower(SplitExt(SplitCommandWindows(calls[i].item.caminho)[1]))
                      \in LauncherExts
                    => calls[i].res.ok

\* the builder has put the runtime in front of an existing script and its two
\* arguments
C26_Witness ==
    \E i \in 1..Len(calls) :
        /\ calls[i].op = "build"
        /\ calls[i].item.ferramenta = <<"p", "y", "t", "h", "o", "n">>
        /\ calls[i].item.caminho = <<"s", ".", "p", "y", " ", "a", " ", "b">>
        /\ PathIsFile(<<"s", ".", "p", "y">>)
        /\ calls[i].res.cmd = << SysExecutable, <<"s", ".", "p", "y">>, <<"a">>, <<"b">> >>

\* the target of a build call has no launcher rule and no binary extension
NoRuleTarget(entry) ==
    /\ Lower(SplitExt(entry)) \notin LauncherExts
    /\ Lower(SplitExt(entry)) \notin ExtBinary

\* the build call failed with the unexecutable-target error naming entry and
\* its extension, and returned no command
FailedUnexecutable(res, entry) ==
    /\ ~res.ok
    /\ res.err = "unexecutable_target"
    /\ res.cmd = <<>>
    /\ res.entry = entry
    /\ res.ext = Lower(SplitExt(entry))

\* C27 as stated: every build for a non-reserved tool whose target has no
\* launcher rule and is not a binary fails with the unexecutable-target error.
C27_Original ==
    \A i \in 1..Len(calls) :
        (/\ calls[i].op = "build"
         /\ calls[i].item.ferramenta \in OtherTools
         /\ calls[i].item.caminho \notin BlankForms
         /\ NoRuleTarget(SplitCommandWindows(calls[i].item.caminho)[1]))
            => FailedUnexecutable(calls[i].res,
                                  SplitCommandWindows(calls[i].item.caminho)[1])

\* C27 (amended): a build for a non-reserved tool whose target has no launcher
\* rule and is not a binary fails with the unexecutable-target error, naming the
\* path and the extension and returning no command, exactly when the target is
\* an existing regular file; otherwise the tokens of the path are the command.
C27_UnexecutableExistingFile ==
    \A i \in 1..Len(calls) :
        (/\ calls[i].op = "build"
         /\ calls[i].item.ferramenta \in OtherTools
         /\ calls[i].item.caminho \notin BlankForms
         /\ NoRuleTarget(SplitCommandWindows(calls[i].item.caminho)[1]))
            => IF PathIsFile(SplitCommandWindows(calls[i].item.caminho)[1])
               THEN FailedUnexecutable(calls[i].res,
                                       SplitCommandWindows(calls[i].item.caminho)[1])
               ELSE /\ calls[i].res.ok
                    /\ calls[i].res.cmd = SplitCommandWindows(calls[i].item.caminho)

\* the builder has refused an existing text file in a directory, naming the
\* file and ".txt"
C27_Witness ==
    \E i \in 1..Len(calls) :
        /\ calls[i].op = "build"
        /\ calls[i].item.ferramenta = <<"o", "t", "h", "e", "r">>
        /\ calls[i].item.caminho = <<"d", "\\", "n", ".", "t", "x", "t">>
        /\ calls[i].res.err = "unexecutable_target"
        /\ calls[i].res.entry = <<"d", "\\", "n", ".", "t", "x", "t">>
        /\ calls[i].res.ext = <<".", "t", "x", "t">>
        /\ calls[i].res.cmd = <<>>

\* C28: an item whose tool or path is missing or blank is rejected with the
\* validation error before anything is launched: the builder raises, run_item
\* raises without launching, and the dispatcher starts no process.
C28_BlankItemNeverLaunched ==
    \A i \in 1..Len(calls) :
        (/\ calls[i].op \in {"build", "run_item", "dispatch"}
         /\ \/ calls[i].item.ferramenta \in BlankForms
            \/ calls[i].item.caminho \in BlankForms)
            => /\ calls[i].op = "build" =>
                      /\ ~calls[i].res.ok
                      /\ calls[i].res.err = "invalid_item"
               /\ calls[i].op = "run_item" =>
                      /\ calls[i].res.raised = "invalid_item"
                      /\ calls[i].res.launched = <<>>
               /\ calls[i].op = "dispatch" =>
                      /\ ev.popped
                      /\ ev.exc = "invalid_item"
                      /\ ~ev.started
                      /\ pstate = "NotRunning"

\* the dispatcher has popped an item without a tool and started nothing
C28_Witness ==
    \E i \in 1..Len(calls) :
        /\ calls[i].op = "dispatch"
        /\ calls[i].item.ferramenta = NoneCell
        /\ calls[i].item.caminho = <<"r", ".", "e", "x", "e">>
        /\ ev.popped
        /\ ev.exc = "invalid_item"
        /\ ~ev.started
        /\ pstate = "NotRunning"

\* C29: a job whose tool or path is missing or blank is never enqueued: neither
\* a manual enqueue nor a scheduler tick puts it on the dispatch queue.
C29_NoMalformedEnqueued ==
    \A i \in 1..Len(calls) :
        (/\ calls[i].op \in {"dispatch", "tick_once"}
         /\ \/ calls[i].item.ferramenta \in BlankForms
            \/ calls[i].item.caminho \in BlankForms)
            => nput = 0

\* the number of distinct job identities due at each minute of the model
DistinctDueAt == [t \in TimePoints |-> Cardinality({ DueAt[t][i] : i \in 1..Len(DueAt[t]) })]

\* the largest number of distinct job identities that match in a single tick
MaxDuePerTick == MaxOf({ DistinctDueAt[t] : t \in TimePoints })

\* C30 as stated: with ticks and job completions only (no manual enqueue), the
\* queue never holds more entries than the number of distinct job identities
\* that can match in a single tick.
C30_Original == nmanual = 0 => Len(dq) <= MaxDuePerTick

\* C30 (amended): the queue's length is not bounded by the jobs of one tick, only
\* its growth per tick is: a scheduler tick puts at most one entry per distinct
\* job identity due at that minute, so it lengthens the queue by no more than
\* the number of distinct identities due at that tick.
C30_TickAddsAtMostDue ==
    [][ev'.tick =>
           /\ ev'.nenq <= DistinctDueAt[clock]
           /\ Len(dq') <= Len(dq) + ev'.nenq]_vars

\* C30 witness: with no manual enqueue, a tick has put both due jobs behind an
\* entry left from an earlier minute, and the queue holds more entries than any
\* single tick matches.
C30_Witness ==
    /\ nmanual = 0
    /\ ev.tick
    /\ ev.nenq = MaxDuePerTick
    /\ ev.qlen0 >= 1
    /\ Len(dq) > MaxDuePerTick

\* the serial numbers held by a sequence of serials
SerialsOf(q) == { q[j] : j \in 1..Len(q) }

\* C31: every queue entry is consumed exactly once: a handler pops at most one
\* entry, the popped entry was never popped before and is no longer queued, a
\* process start always consumes the entry popped by the same handler (so the
\* starts never outnumber the pops, nor the pops the enqueues), and no entry
\* handed to the dispatcher ever returns to the queue.
C31_ConsumedExactlyOnce ==
    [][/\ Len(attempts') <= nput'
       /\ SubSeq(attempts', 1, Len(attempts)) = attempts
       /\ SerialsOf(attempts') \cap SerialsOf(qseq') = {}
       /\ ev'.started => ev'.popped
       /\ IF ev'.popped
          THEN /\ Len(attempts') = Len(attempts) + 1
               /\ attempts'[Len(attempts')] \notin SerialsOf(attempts)
               /\ Len(dq') + Len(attempts') = nput'
          ELSE attempts' = attempts]_vars

\* C31 witness: three entries were enqueued, the completion handler popped and
\* started the second while the third waits.
C31_Witness ==
    /\ ev.op = "finished"
    /\ ev.popped
    /\ ev.started
    /\ attempts = <<1, 2>>
    /\ qseq = <<3>>
    /\ nput = 3

\* C32 (as claimed): a running item is recorded exactly when the process is
\* Starting or Running; the handler of a terminal outcome that starts nothing,
\* and a handler whose command build failed, leaves the dispatcher idle with no
\* running item.
C32_LifecycleInvariant ==
    /\ (Len(running_item) > 0) <=> (pstate \in {"Starting", "Running"})
    /\ (ev.op \in {"finished", "crashed", "error"} /\ ~ev.started) =>
           (pstate = "NotRunning" /\ running_item = <<>>)
    /\ (ev.popped /\ ~ev.started) => (pstate = "NotRunning" /\ running_item = <<>>)

\* the text consists of decimal digits only
AllDigits(s) ==
    /\ Len(s) > 0
    /\ \A k \in 1..Len(s) : s[k] \in {"0", "1", "2", "3", "4", "5", "6", "7", "8", "9"}

\* part occurs in whole as a contiguous run of characters, letter case included
OccursIn(part, whole) ==
    \E k \in 0..(Len(whole) - Len(part)) : SubSeq(whole, k + 1, k + Len(part)) = part

\* C33: a token matches a snapshot value exactly when both are numeric and their
\* integer values are equal, or the token is not numeric and the value occurs in
\* it as a case-sensitive contiguous substring; a numeric token is never matched
\* by substring against a numeric value, nor a token that differs in letter case.
C33_TokenMatchingRule ==
    \A i \in 1..Len(calls) :
        calls[i].op = "token_matches" =>
            /\ calls[i].res <=>
                   IF AllDigits(calls[i].token) /\ AllDigits(Strip(calls[i].value))
                   THEN ToInt(calls[i].token) = ToInt(Strip(calls[i].value))
                   ELSE /\ ~AllDigits(calls[i].token)
                        /\ OccursIn(Strip(calls[i].value), calls[i].token)
            /\ (calls[i].token = <<"1", "7">> /\ calls[i].value = <<"7">>) => ~calls[i].res
            /\ (calls[i].token = <<"f", "r", "i", "d", "a", "y">> /\ calls[i].value = <<"F", "r", "i", "d", "a", "y">>) => ~calls[i].res

\* token_matches has accepted a text token on the strength of a substring and
\* the state records it
C33_Witness ==
    \E i \in 1..Len(calls) :
        /\ calls[i].op = "token_matches"
        /\ calls[i].token = <<"F", "r", "i", "d", "a", "y">>
        /\ calls[i].value = <<"d", "a", "y">>
        /\ calls[i].res

\* C34 (as claimed): a field holding a whole-number float-looking value such as
\* "7.0" is treated as its integer form: it matches a numeric snapshot value
\* exactly when the integer values are equal, so "7.0" matches "07".
C34_FloatLookingCollapses ==
    \A i \in 1..Len(calls) :
        calls[i].op = "matches" =>
            \A c \in FloatLooking :
                (c.cell = calls[i].field /\ calls[i].value \in NumericValues) =>
                    (calls[i].res <=> (c.whole = ToInt(calls[i].value)))

\* the first m tokens joined by single blanks
JoinedPrefix(shell, m) == Join(SubSeq(shell, 1, m), <<" ">>)

\* the lengths of the token prefixes that are existing regular files
FilePrefixes(shell) == { m \in 1..Len(shell) : PathIsFile(JoinedPrefix(shell, m)) }

\* the lengths of the token prefixes that exist at all
ExistingPrefixes(shell) == { m \in 1..Len(shell) : PathExists(JoinedPrefix(shell, m)) }

\* what the claim expects of the tokens res returned for the stripped text raw
\* whose shell-style tokens are shell
SplitAsClaimed(raw, shell, res) ==
    IF PathExists(raw) THEN res = <<raw>>
    ELSE /\ Join(res, <<" ">>) = Join(shell, <<" ">>)
         /\ (~IsQuote(raw[1]) /\ Len(shell) > 1 /\ FilePrefixes(shell) # {}) =>
                /\ res[1] = JoinedPrefix(shell, MaxOf(FilePrefixes(shell)))
                /\ Tail(res) = SubSeq(shell, MaxOf(FilePrefixes(shell)) + 1, Len(shell))
         /\ ExistingPrefixes(shell) = {} => res = shell
         /\ IsQuote(raw[1]) => res = shell

\* C35: _split_command_windows returns the whole text as the sole token when it
\* is an existing path; otherwise, for an unquoted text of several tokens, the
\* longest blank-joined token prefix that is an existing file followed by the
\* remaining tokens in order, no token lost or reordered; and the shell-style
\* tokens unchanged when no prefix exists.
C35_PathTokenization ==
    \A i \in 1..Len(calls) :
        calls[i].op = "split" =>
            \A c \in SplitCases :
                c.raw = calls[i].raw =>
                    SplitAsClaimed(Strip(c.raw), c.shell, calls[i].res)

\* the splitter has rebuilt a file name with a blank in it from its two tokens,
\* passing over the shorter prefix that is a file too, and kept both arguments
C35_Witness ==
    \E i \in 1..Len(calls) :
        /\ calls[i].op = "split"
        /\ calls[i].raw = <<"p", " ", "q", ".", "p", "y", " ", "x", " ", "y">>
        /\ PathIsFile(<<"p">>)
        /\ PathIsFile(<<"p", " ", "q", ".", "p", "y">>)
        /\ calls[i].res = << <<"p", " ", "q", ".", "p", "y">>, <<"x">>, <<"y">> >>

\* the disabled process of the table, whose schedule is the wildcard in every field
ItemC == ManualItem(ProcC)

\* C36: a disabled entry is never enqueued by a scheduler tick, although its
\* schedule matches every minute: tick_once has put no entry for it, no tick
\* logs it as enqueued, and without a manual enqueue it is never in the queue
\* nor the running item.
C36_DisabledNeverScheduled ==
    /\ ~ProcC.enabled
    /\ schedPuts[ItemC] = 0
    /\ ev.tick =>
           \A k \in 1..Len(ev.logs) :
               ev.logs[k].tag = "enfileirado" => ev.logs[k].name # ProcC.Nome_Processo
    /\ nmanual = 0 =>
           /\ \A k \in 1..Len(dq) : dq[k] # ItemC
           /\ running_item # <<ItemC>>

\* C36 witness: a tick inside the window fetched the entries at a minute at which
\* the disabled entry's schedule matches, and enqueued the two enabled ones only.
C36_Witness ==
    /\ ev.tick
    /\ ev.fetched
    /\ ev.fault = ""
    /\ ev.nenq = 2
    /\ ShouldEnqueue(ProcessToScheduleRow(ProcC), GetNowParts(clock))
    /\ schedPuts[ItemC] = 0
    /\ schedPuts[ItemA] = 1

\* C37: for tools other than the reserved one, the built command depends on the
\* path and the filesystem alone: two items with the same path that differ in
\* tool and display name get the same result, argv or error; tool "Python" with
\* a binary as its path yields the path as the only token.
C37_ToolAndNameIrrelevant ==
    \A i \in 1..Len(calls) :
        calls[i].op = "pair" =>
            /\ calls[i].res1 = calls[i].res2
            /\ (calls[i].one.ferramenta = <<"P", "y", "t", "h", "o", "n">> /\ calls[i].one.caminho = <<"r", ".", "e", "x", "e">>) =>
                   (calls[i].res1.ok /\ calls[i].res1.cmd = << <<"r", ".", "e", "x", "e">> >>)

\* two items with different tools and names and the same script path have both
\* been built into the same command
C37_Witness ==
    \E i \in 1..Len(calls) :
        /\ calls[i].op = "pair"
        /\ calls[i].one.ferramenta = <<"P", "y", "t", "h", "o", "n">>
        /\ calls[i].two.ferramenta = <<"o", "t", "h", "e", "r">>
        /\ calls[i].one.processo # calls[i].two.processo
        /\ calls[i].one.caminho = <<"s", ".", "p", "y", " ", "a", " ", "b">>
        /\ calls[i].res1.ok
        /\ calls[i].res1.cmd = << <<"p", "y", "t", "h", "o", "n", ".", "e", "x", "e">>, <<"s", ".", "p", "y">>, <<"a">>, <<"b">> >>
        /\ calls[i].res2.cmd = << <<"p", "y", "t", "h", "o", "n", ".", "e", "x", "e">>, <<"s", ".", "p", "y">>, <<"a">>, <<"b">> >>

\* C38 (as claimed): two jobs that differ in display name, tool or path are never
\* taken for duplicates of each other: offered to the guard one after the other
\* in the same minute, both are allowed, also when a field contains "|".
C38_KeyDistinguishes ==
    \A i \in 1..Len(calls) :
        (calls[i].op = "allow_pair" /\ calls[i].one # calls[i].two) =>
            (calls[i].ok1 /\ calls[i].ok2)

\* the number of entries of the agenda for row proc at minute m
AgendaCount(agenda, proc, m) ==
    Cardinality({ k \in 1..Len(agenda) :
                    /\ agenda[k].hora = Pad2(m.hour) \o <<":">> \o Pad2(m.minute)
                    /\ agenda[k].processo = proc.Nome_Processo })

\* a scheduler tick taken at minute m of the day finds row proc due
TickFindsDue(table, os_locale, day, m, proc) ==
    /\ InWindow(m.hour)
    /\ \E k \in 1..Len(ListEnabled(table)) :
           /\ ListEnabled(table)[k] = proc
           /\ ShouldEnqueue(ProcessToScheduleRow(proc),
                            StrftimeParts(LocaleAfterInit(os_locale),
                                          [day |-> day, hour |-> m.hour,
                                           minute |-> m.minute]))

\* C39: the agenda list_today_schedule returns agrees with the scheduler: an
\* enabled row is listed at minute hh:mm of today exactly when hh:mm lies in
\* [07:00, 18:00) and a scheduler tick taken at that minute would find the row
\* due, and each listed (minute, row) pair appears once.
C39_AgendaAgreesWithScheduler ==
    calls[1].op = "agenda" =>
        \A i \in 1..Len(DayMinutes), k \in 1..Len(calls[1].table) :
            calls[1].table[k].enabled =>
                AgendaCount(calls[1].agenda, calls[1].table[k], DayMinutes[i])
                    = IF TickFindsDue(calls[1].table, calls[1].os_locale, clock.day,
                                      DayMinutes[i], calls[1].table[k])
                      THEN 1 ELSE 0
====
